---------------------------- MODULE Spec2Model ----------------------------
(***************************************************************************)
(* A model of the horse-racing picks pipeline:                             *)
(*   - mapPool, the promise pool of select-top3.js (scraper half) and of   *)
(*     the analysis script, with the promise reaction jobs of              *)
(*     .then/.catch/.finally run from a FIFO job queue;                    *)
(*   - toDec, the odds normaliser, over odds texts as character sequences; *)
(*   - the selection loop (score, filter, sort, cap, combo check, emit).   *)
(* Each part has its own specification; the variables of the other parts   *)
(* stay at their initial values.                                           *)
(***************************************************************************)
EXTENDS Integers, Sequences, FiniteSets, TLC

VARIABLES
  \* ---- mapPool(items, limit, fn) ----
  called,      \* has mapPool been called (its executor run)?
  items,       \* the input sequence
  limit,       \* the concurrency limit
  out,         \* out[idx], idx in 0..N-1: `new Array(items.length)`
  i,           \* next index to launch
  running,     \* the pool's own count of running tasks
  workers,     \* workers[idx]: the promise returned by fn(items[idx], idx)
  jobs,        \* the promise job (microtask) queue, FIFO
  settled,     \* state of the promise mapPool returns
  reason,      \* its rejection reason once rejected
  settleOrder, \* history: indices of the workers in the order they settled
  \* ---- toDec(odds) ----
  odds,        \* the argument: an odds text, or NullText
  dec,         \* the value returned: a number, or Null
  decDone,     \* has toDec returned?
  prob,        \* the value impliedProb returned for it
  probDone,    \* has impliedProb returned?
  \* ---- the selection script (select-top3.js, first half) ----
  races,       \* data.races: the analysed races, each with its shortlist
  ri,          \* number of races the loop has gone through
  picks,       \* the scored picks of the race handled last
  profitable,  \* ... those with expected value > 0, then sorted
  top3,        \* ... the first three of them
  potential,   \* ... the combo profit of the top three
  refined,     \* refined.races: the output
  written,     \* has the output file been written?
  trace,       \* history: what each turn of the loop of this run computed
  runs,        \* history: trace and output of the runs that have ended
  \* ---- the racecards scraper: getRunnersForRace as the pool's worker ----
  frames,      \* frames[idx]: the calls of getRunnersForRace in progress, innermost last
  pages,       \* pages[idx]: every page opened for the race, "open" or "closed"
  tries,       \* tries[idx]: history, the outcome of each call of getRunnersForRace
  \* ---- the analysis script: the per-race worker around callPerplexity ----
  ana,         \* ana[idx]: the worker's position and attempt, and out.races[idx]
  \* ---- the result extractor (scrape-results.js) ----
  archive,     \* picks.races: the archived races, each with its shortlist
  rk,          \* number of races the loop has gone through
  rpc,         \* position of main in the loop body
  rpage,       \* the page of the race in hand
  outResults,  \* the ResultRecords pushed so far
  updatedRaces,\* the updated race records pushed so far
  files,       \* the two files written at the end
  argv,        \* process.argv.slice(2)
  target,      \* what getTargetDateFromArgs came to: a date text, or an error
  browser,     \* the browser: "none", "launched" or "closed"
  exited,      \* the status process.exit was called with, "none" if it was not
  onDisk,      \* is there an archived picks file for the date?
  \* ---- adjustedProb(pick) ----
  adjPick,     \* the argument: a pick with odds_note, confidence and form
  adj,         \* the probability returned
  adjDone      \* has adjustedProb returned?

poolVars == <<called, items, limit, out, i, running, workers, jobs, settled,
              reason, settleOrder>>

decVars == <<odds, dec, decDone, prob, probDone>>

selVars == <<races, ri, picks, profitable, top3, potential, refined, written, trace, runs>>

runVars == <<frames, pages, tries>>

anaVars == <<ana>>

startVars == <<argv, target, browser, exited, onDisk>>

resVars == <<archive, rk, rpc, rpage, outResults, updatedRaces, files, startVars>>

adjVars == <<adjPick, adj, adjDone>>

vars == <<poolVars, decVars, selVars, runVars, anaVars, resVars, adjVars>>

\* the variables a part of the program does not touch
outsidePool == <<decVars, selVars, runVars, anaVars, resVars, adjVars>>
outsideDec == <<poolVars, selVars, runVars, anaVars, resVars, adjVars>>
outsideSel == <<poolVars, decVars, runVars, anaVars, resVars, adjVars>>
outsideScrape == <<decVars, selVars, anaVars, resVars, adjVars>>
outsideAnalysis == <<decVars, selVars, runVars, resVars, adjVars>>
outsideResults == <<poolVars, decVars, selVars, runVars, anaVars, adjVars>>
outsideAdjust == <<poolVars, decVars, selVars, runVars, anaVars, resVars>>

-----------------------------------------------------------------------------
(* Bounds *)
MaxItems == 3
MaxLimit == 2

Items  == {"a", "b"}
Values == {"v1", "v2"}
Errors == {"e1", "e2"}

Empty == "<empty>"       \* a hole of `new Array(n)` / undefined
NoReason == "<none>"

RECURSIVE SeqsUpTo(_, _)
SeqsUpTo(S, n) ==
  IF n = 0 THEN {<<>>}
  ELSE LET shorter == SeqsUpTo(S, n - 1)
       IN shorter \cup {Append(s, x) : s \in {t \in shorter : Len(t) = n - 1}, x \in S}

N == Len(items)
Idx == 0 .. (N - 1)

-----------------------------------------------------------------------------
(* mapPool *)

NotStarted == [st |-> "none"]
Pending(item, idx) == [st |-> "pending", arg |-> item, idx |-> idx]

\* `while (running < limit && i < items.length)`
CanLaunch_off(r, k) == r <= limit /\ k < N
CanLaunch(r, k) == r < limit /\ k < N

\* launch(): `const idx = i++; running++; Promise.resolve(fn(items[idx], idx))...`
RECURSIVE launch_untilRejected(_, _, _)
launch_untilRejected(k, r, w) ==
  IF settled = "pending" /\ CanLaunch(r, k)
  THEN launch_untilRejected(k + 1, r + 1, [w EXCEPT ![k] = Pending(items[k + 1], k)])
  ELSE [i |-> k, running |-> r, workers |-> w]

RECURSIVE launch(_, _, _)
launch(k, r, w) ==
  IF CanLaunch(r, k)
  THEN launch(k + 1, r + 1, [w EXCEPT ![k] = Pending(items[k + 1], k)])
  ELSE [i |-> k, running |-> r, workers |-> w]

\* resolve(out) / reject(e) of the promise mapPool returns: a promise settles once
resolve(s) == IF s = "pending" THEN "fulfilled" ELSE s
reject_last(s, r, e) == [settled |-> "rejected", reason |-> e]
reject(s, r, e) ==
  IF s = "pending" THEN [settled |-> "rejected", reason |-> e]
  ELSE [settled |-> s, reason |-> r]

\* `.then(v => out[idx] = v)`
StoreResult_push(o, idx, v) ==
  LET holes == {k \in DOMAIN o : o[k] = Empty}
      first == CHOOSE k \in holes : \A m \in holes : k <= m
  IN [o EXCEPT ![first] = v]
StoreResult(o, idx, v) == [o EXCEPT ![idx] = v]

\* `(i >= items.length && running === 0)`
AllDone_idle(k, r) == r = 0
AllDone(k, r) == k >= N /\ r = 0

PoolInit ==
  /\ called = FALSE
  /\ items \in SeqsUpTo(Items, MaxItems)
  /\ limit \in 1 .. MaxLimit
  /\ out = <<>>
  /\ i = 0
  /\ running = 0
  /\ workers = <<>>
  /\ jobs = <<>>
  /\ settled = "pending"
  /\ reason = NoReason
  /\ settleOrder = <<>>

\* The call: allocate out, run the executor, i.e. the first launch().
MapPool ==
  /\ ~called
  /\ called' = TRUE
  /\ out' = [idx \in Idx |-> Empty]
  /\ LET l == launch(0, 0, [idx \in Idx |-> NotStarted])
     IN /\ i' = l.i
        /\ running' = l.running
        /\ workers' = l.workers
  /\ UNCHANGED <<items, limit, jobs, settled, reason, settleOrder, outsidePool>>

\* The promise returned by fn(items[idx], idx) fulfils with v: its .then
\* reaction is queued.
Fulfilled(idx, v) ==
  /\ called
  /\ workers[idx].st = "pending"
  /\ workers' = [workers EXCEPT ![idx] = [@ EXCEPT !.st = "fulfilled"] @@ [v |-> v]]
  /\ jobs' = Append(jobs, [idx |-> idx, stage |-> "then"])
  /\ settleOrder' = Append(settleOrder, idx)
  /\ UNCHANGED <<called, items, limit, out, i, running, settled, reason>>

\* ... or rejects with e.
Failed(idx, e) ==
  /\ called
  /\ workers[idx].st = "pending"
  /\ workers' = [workers EXCEPT ![idx] = [@ EXCEPT !.st = "rejected"] @@ [e |-> e]]
  /\ jobs' = Append(jobs, [idx |-> idx, stage |-> "then"])
  /\ settleOrder' = Append(settleOrder, idx)
  /\ UNCHANGED <<called, items, limit, out, i, running, settled, reason>>

\* a worker that does nothing else: it settles with any value or any error
WorkerFulfils(idx, v) == Fulfilled(idx, v) /\ UNCHANGED outsidePool
WorkerRejects(idx, e) == Failed(idx, e) /\ UNCHANGED outsidePool

\* `.then(v => out[idx] = v)`: stores on fulfilment, passes a rejection on.
ThenJob ==
  /\ jobs # <<>>
  /\ Head(jobs).stage = "then"
  /\ LET idx == Head(jobs).idx
     IN /\ out' = IF workers[idx].st = "fulfilled"
                  THEN StoreResult(out, idx, workers[idx].v)
                  ELSE out
        /\ jobs' = Append(Tail(jobs), [idx |-> idx, stage |-> "catch"])
  /\ UNCHANGED <<called, items, limit, i, running, workers, settled, reason, settleOrder, outsidePool>>

\* `.catch(reject)`
CatchJob ==
  /\ jobs # <<>>
  /\ Head(jobs).stage = "catch"
  /\ LET idx == Head(jobs).idx
         r == IF workers[idx].st = "rejected"
              THEN reject(settled, reason, workers[idx].e)
              ELSE [settled |-> settled, reason |-> reason]
     IN /\ settled' = r.settled
        /\ reason' = r.reason
        /\ jobs' = Append(Tail(jobs), [idx |-> idx, stage |-> "finally"])
  /\ UNCHANGED <<called, items, limit, out, i, running, workers, settleOrder, outsidePool>>

\* `.finally(() => { running--; (i >= items.length && running === 0)
\*                                 ? resolve(out) : launch(); })`
FinallyJob ==
  /\ jobs # <<>>
  /\ Head(jobs).stage = "finally"
  /\ jobs' = Tail(jobs)
  /\ IF AllDone(i, running - 1)
     THEN /\ settled' = resolve(settled)
          /\ running' = running - 1
          /\ UNCHANGED <<i, workers>>
     ELSE LET l == launch(i, running - 1, workers)
          IN /\ i' = l.i
             /\ running' = l.running
             /\ workers' = l.workers
             /\ UNCHANGED settled
  /\ UNCHANGED <<called, items, limit, out, reason, settleOrder, outsidePool>>

PoolNext ==
  \/ MapPool
  \/ \E idx \in Idx, v \in Values : WorkerFulfils(idx, v)
  \/ \E idx \in Idx, e \in Errors : WorkerRejects(idx, e)
  \/ ThenJob
  \/ CatchJob
  \/ FinallyJob

-----------------------------------------------------------------------------
(* Properties of mapPool *)

InFlight == {idx \in DOMAIN workers : workers[idx].st = "pending"}
Rejected == {idx \in DOMAIN workers : workers[idx].st = "rejected"}

\* position of idx in settleOrder
SettledAt(idx) == CHOOSE k \in 1 .. Len(settleOrder) : settleOrder[k] = idx

\* the worker whose failure occurred first
FirstFailure ==
  CHOOSE idx \in Rejected : \A other \in Rejected : SettledAt(idx) <= SettledAt(other)

\* the .then and .catch reactions of worker idx have both run
CatchRan(idx) ==
  /\ workers[idx].st \in {"fulfilled", "rejected"}
  /\ \A k \in 1 .. Len(jobs) :
       jobs[k].idx = idx => jobs[k].stage \notin {"then", "catch"}

\* C1: at every moment the number of worker invocations that have started and
\* not yet settled is at most limit, whatever the completion order.
C1_AtMostLimitInFlight ==
  called => Cardinality(InFlight) <= limit

\* C1 witness: more items than the limit, the pool is full, and the last item
\* was launched only after an earlier worker had completed.
C1_Witness ==
  /\ called /\ N > limit
  /\ Cardinality(InFlight) = limit
  /\ i = N
  /\ settleOrder # <<>>

\* C2: when mapPool resolves, the result has length N and slot idx holds the
\* value returned by the worker invoked on items[idx], whatever the order in
\* which the workers completed.
C2_ResultsInInputOrder ==
  settled = "fulfilled" =>
    /\ DOMAIN out = Idx
    /\ \A idx \in Idx :
         /\ workers[idx].st = "fulfilled"
         /\ workers[idx].arg = items[idx + 1]
         /\ out[idx] = workers[idx].v

\* C2 witness: resolved with three items whose workers completed in an order
\* other than the input order and returned different values.
C2_Witness ==
  /\ settled = "fulfilled"
  /\ N = 3
  /\ settleOrder = <<1, 0, 2>>
  /\ out[0] # out[1]

\* C3 (as claimed): called with no items, mapPool resolves at once with an
\* empty sequence.
C3_EmptyInputResolves ==
  (called /\ N = 0) => (settled = "fulfilled" /\ out = <<>>)

\* C4: a worker failure rejects the pool's promise with the first failure that
\* occurred; a later failure or a later "all done" never changes the outcome;
\* the step that rejects leaves every worker as it is, so workers in flight
\* settle only by their own completion.
C4_FirstFailureRejects ==
  /\ [](settled = "rejected" =>
          /\ Rejected # {}
          /\ reason = workers[FirstFailure].e)
  /\ [](\A idx \in Rejected : CatchRan(idx) => settled = "rejected")
  /\ [][settled = "rejected" => (settled' = "rejected" /\ reason' = reason)]_vars
  /\ [][settled' # settled => workers' = workers]_vars
  /\ [][\A idx \in DOMAIN workers :
          (workers[idx].st = "pending" /\ workers'[idx].st # "pending")
             => (settleOrder' = Append(settleOrder, idx))]_vars

\* C4 witness: two workers failed with different errors, the pool is rejected
\* with the first error, and a worker that was in flight at the rejection has
\* since fulfilled and stored its value.
C4_Witness ==
  /\ settled = "rejected"
  /\ \E a, b \in Rejected :
       /\ a = FirstFailure /\ b # a
       /\ workers[a].e # workers[b].e
       /\ CatchRan(b)
       /\ reason = workers[a].e
  /\ \E c \in DOMAIN workers :
       /\ workers[c].st = "fulfilled"
       /\ out[c] = workers[c].v

\* the workers that have been invoked, and those that have settled
Invoked == {idx \in DOMAIN workers : workers[idx].st # "none"}
Done == {idx \in DOMAIN workers : workers[idx].st \in {"fulfilled", "rejected"}}

\* C26: called with at least one item, and with every worker settling at some
\* time, mapPool settles at some time and every item has its worker invoked;
\* it resolves only when all workers have settled; a worker is invoked once,
\* on its own item, and is never invoked again.
C26_PoolSettles ==
  /\ (called /\ N >= 1) ~> (settled # "pending")
  /\ (called /\ N >= 1) ~> (Invoked = Idx /\ Done = Idx)
  /\ [](settled = "fulfilled" => Done = Idx)
  /\ [](\A idx \in Invoked : workers[idx].idx = idx /\ workers[idx].arg = items[idx + 1])
  /\ [][\A idx \in Invoked :
          /\ idx \in Invoked'
          /\ workers'[idx].arg = workers[idx].arg
          /\ idx \in Done => workers'[idx] = workers[idx]]_vars
  /\ [][i' >= i /\ Invoked' = 0 .. (i' - 1)]_vars

\* C26 witness: more items than the limit, all workers settled in an order
\* other than the input order, and the pool resolved.
C26_Witness ==
  /\ settled = "fulfilled"
  /\ N = 3 /\ limit = 2
  /\ Done = Idx
  /\ settleOrder = <<1, 2, 0>>
  /\ jobs = <<>>

\* C27: once a failure has rejected the pool, the items not yet started are
\* still launched, within the limit, until every item has had its worker
\* invoked, and these workers run to their end.
C27_SchedulesAfterRejection ==
  /\ (settled = "rejected") ~> (Invoked = Idx /\ Done = Idx /\ jobs = <<>>)
  /\ [](settled = "rejected" => Cardinality(InFlight) <= limit)
  /\ [][(/\ settled = "rejected" /\ i < N
          /\ jobs # <<>> /\ Head(jobs).stage = "finally" /\ jobs' = Tail(jobs))
          => (/\ i' > i
              /\ i' = IF N - i < limit - (running - 1) THEN N ELSE i + limit - (running - 1)
              /\ running' = (running - 1) + (i' - i)
              /\ \A idx \in i .. (i' - 1) : workers'[idx].st = "pending")]_vars

\* C27 witness: with limit 1 the first worker failed and the pool was
\* rejected; the second and third items were launched after that, one at a
\* time, and the third has returned.
C27_Witness ==
  /\ settled = "rejected"
  /\ N = 3 /\ limit = 1
  /\ workers[0].st = "rejected"
  /\ workers[1].st = "fulfilled"
  /\ workers[2].st = "fulfilled"
  /\ out[2] = workers[2].v

-----------------------------------------------------------------------------
(* The racecards scraper: main() runs getRunnersForRace on every race link   *)
(* through mapPool.  A call of getRunnersForRace is a frame; the retry is a   *)
(* second frame on top of the first, which waits for it inside its try.       *)

CONCURRENCY == 2
RETRY_ON_EMPTY == 1
MaxRaces == 2
MaxRunners == 1

Absent == "<absent>"     \* a field the record does not have
NoReturn == [kind |-> "none"]

RaceLink(k) == [url |-> k]

\* { ...race, runners }, with _note or _error
RaceRecord(race, n, note, err) == [race |-> race, runners |-> n, note |-> note, error |-> err]

Frame(attempt) == [pc |-> "newPage", attempt |-> attempt, page |-> 0, ret |-> NoReturn]

Top(idx) == frames[idx][Len(frames[idx])]
SetTop(idx, f) == [frames EXCEPT ![idx] = [@ EXCEPT ![Len(@)] = f]]
At(idx, pc) == called /\ frames[idx] # <<>> /\ Top(idx).pc = pc
RaceOf(idx) == items[idx + 1]

\* history: what the call in the top frame came to
Outcome(idx, o) == tries' = [tries EXCEPT ![idx] = [@ EXCEPT ![Top(idx).attempt + 1] = o]]

\* the top frame goes on to pc / leaves its try with value v, towards finally
GoOn(idx, pc) == frames' = SetTop(idx, [Top(idx) EXCEPT !.pc = pc])
Leave(idx, v) == frames' = SetTop(idx, [Top(idx) EXCEPT !.pc = "finally", !.ret = v])

\* `catch (e) { ...; return { ...race, runners: [], _error: e.message }; }`
Caught(idx, e) == Leave(idx, RaceRecord(RaceOf(idx), 0, Absent, e))

\* the top call returns v: to the pool's worker, or to the first call, which
\* is at `return await getRunnersForRace(context, race, attempt + 1)`
Returns(idx, v) ==
  IF Len(frames[idx]) = 1
  THEN /\ frames' = [frames EXCEPT ![idx] = <<>>]
       /\ Fulfilled(idx, v)
  ELSE /\ frames' = [frames EXCEPT ![idx] =
                       LET below == SubSeq(@, 1, Len(@) - 1)
                       IN [below EXCEPT ![Len(below)] =
                             [@ EXCEPT !.pc = "finally", !.ret = v]]]
       /\ UNCHANGED poolVars

\* the top call throws e outside its try: the worker's promise rejects, or the
\* first call catches it
Throws(idx, e) ==
  IF Len(frames[idx]) = 1
  THEN /\ frames' = [frames EXCEPT ![idx] = <<>>]
       /\ Failed(idx, e)
  ELSE /\ frames' = [frames EXCEPT ![idx] =
                       LET below == SubSeq(@, 1, Len(@) - 1)
                       IN [below EXCEPT ![Len(below)] =
                             [@ EXCEPT !.pc = "finally",
                                       !.ret = RaceRecord(RaceOf(idx), 0, Absent, e)]]]
       /\ UNCHANGED poolVars

\* `(!runners || runners.length === 0) && attempt < RETRY_ON_EMPTY`
MayRetry_twice(n, attempt) == n = 0 /\ attempt <= RETRY_ON_EMPTY
MayRetry(n, attempt) == n = 0 /\ attempt < RETRY_ON_EMPTY

\* the worker: after the jitter delay, `return await getRunnersForRace(context, race)`
Jitter(idx) ==
  /\ called
  /\ workers[idx].st = "pending"
  /\ frames[idx] = <<>>
  /\ frames' = [frames EXCEPT ![idx] = <<Frame(0)>>]
  /\ tries' = [tries EXCEPT ![idx] = Append(@, "running")]
  /\ UNCHANGED <<pages, poolVars, outsideScrape>>

\* `const page = await context.newPage();` (before the try)
NewPage(idx, ok) ==
  /\ At(idx, "newPage")
  /\ IF ok
     THEN /\ pages' = [pages EXCEPT ![idx] = Append(@, "open")]
          /\ frames' = SetTop(idx, [Top(idx) EXCEPT !.pc = "route",
                                                    !.page = Len(pages[idx]) + 1])
          /\ UNCHANGED <<tries, poolVars>>
     ELSE /\ Throws(idx, "newPage")
          /\ Outcome(idx, "threw")
          /\ UNCHANGED pages
  /\ UNCHANGED outsideScrape

\* `await page.route('**/*', ...)` (before the try)
Route(idx, ok) ==
  /\ At(idx, "route")
  /\ IF ok
     THEN GoOn(idx, "goto") /\ UNCHANGED <<tries, poolVars>>
     ELSE Throws(idx, "route") /\ Outcome(idx, "threw")
  /\ UNCHANGED <<pages, outsideScrape>>

Goto_redirectFails(idx, ok, redirected) ==
  /\ At(idx, "goto")
  /\ IF ~ok THEN Caught(idx, "goto") /\ Outcome(idx, "error")
     ELSE IF redirected
          THEN Caught(idx, "redirected") /\ Outcome(idx, "skipped")
     ELSE GoOn(idx, "wait") /\ UNCHANGED tries
  /\ UNCHANGED <<pages, poolVars, outsideScrape>>

\* `await page.goto(...)`, the redirect test, the best-effort cookie click
Goto(idx, ok, redirected) ==
  /\ At(idx, "goto")
  /\ IF ~ok THEN Caught(idx, "goto") /\ Outcome(idx, "error")
     ELSE IF redirected
          THEN /\ Leave(idx, RaceRecord(RaceOf(idx), 0, "skipped_finished", Absent))
               /\ Outcome(idx, "skipped")
     ELSE GoOn(idx, "wait") /\ UNCHANGED tries
  /\ UNCHANGED <<pages, poolVars, outsideScrape>>

\* `await page.waitForSelector('.featured_runner', { timeout: 15000 })`
WaitForSelector(idx, ok) ==
  /\ At(idx, "wait")
  /\ IF ok THEN GoOn(idx, "eval") /\ UNCHANGED tries
     ELSE Caught(idx, "wait") /\ Outcome(idx, "error")
  /\ UNCHANGED <<pages, poolVars, outsideScrape>>

\* `const runners = await page.$$eval(...)` and the test for a retry
Eval(idx, ok, n) ==
  /\ At(idx, "eval")
  /\ IF ~ok THEN Caught(idx, "eval") /\ Outcome(idx, "error")
     ELSE IF MayRetry(n, Top(idx).attempt)
          THEN GoOn(idx, "delay") /\ Outcome(idx, "empty")
     ELSE /\ Leave(idx, RaceRecord(RaceOf(idx), n, Absent, Absent))
          /\ Outcome(idx, IF n = 0 THEN "empty" ELSE "runners")
  /\ UNCHANGED <<pages, poolVars, outsideScrape>>

\* after the 1200 ms: the call `getRunnersForRace(context, race, attempt + 1)`
Retry(idx) ==
  /\ At(idx, "delay")
  /\ frames' = [frames EXCEPT ![idx] =
                  Append(SetTop(idx, [Top(idx) EXCEPT !.pc = "await"])[idx],
                         Frame(Top(idx).attempt + 1))]
  /\ tries' = [tries EXCEPT ![idx] = Append(@, "running")]
  /\ UNCHANGED <<pages, poolVars, outsideScrape>>

\* `finally { await page.close().catch(() => {}); }`, then the call returns
Finally(idx) ==
  /\ At(idx, "finally")
  /\ pages' = [pages EXCEPT ![idx] = [@ EXCEPT ![Top(idx).page] = "closed"]]
  /\ Returns(idx, Top(idx).ret)
  /\ UNCHANGED <<tries, outsideScrape>>

RunIdle == frames = <<>> /\ pages = <<>> /\ tries = <<>>

ScrapeInit ==
  /\ called = FALSE
  /\ items \in {[k \in 1 .. n |-> RaceLink(k)] : n \in 1 .. MaxRaces}   \* `if (!raceLinks.length) throw`
  /\ limit = CONCURRENCY
  /\ out = <<>>
  /\ i = 0
  /\ running = 0
  /\ workers = <<>>
  /\ jobs = <<>>
  /\ settled = "pending"
  /\ reason = NoReason
  /\ settleOrder = <<>>
  /\ frames = [idx \in 0 .. (Len(items) - 1) |-> <<>>]
  /\ pages = [idx \in 0 .. (Len(items) - 1) |-> <<>>]
  /\ tries = [idx \in 0 .. (Len(items) - 1) |-> <<>>]

\* a card with one race more than the pool runs at a time
MoreRaces == CONCURRENCY + 1

PagesInit ==
  /\ called = FALSE
  /\ items = [k \in 1 .. MoreRaces |-> RaceLink(k)]
  /\ limit = CONCURRENCY
  /\ out = <<>>
  /\ i = 0
  /\ running = 0
  /\ workers = <<>>
  /\ jobs = <<>>
  /\ settled = "pending"
  /\ reason = NoReason
  /\ settleOrder = <<>>
  /\ frames = [idx \in 0 .. (Len(items) - 1) |-> <<>>]
  /\ pages = [idx \in 0 .. (Len(items) - 1) |-> <<>>]
  /\ tries = [idx \in 0 .. (Len(items) - 1) |-> <<>>]

ScrapeNext ==
  \/ MapPool
  \/ ThenJob
  \/ CatchJob
  \/ FinallyJob
  \/ \E idx \in Idx : Jitter(idx)
  \/ \E idx \in Idx, ok \in BOOLEAN : NewPage(idx, ok)
  \/ \E idx \in Idx, ok \in BOOLEAN : Route(idx, ok)
  \/ \E idx \in Idx, ok \in BOOLEAN, redirected \in BOOLEAN : Goto(idx, ok, redirected)
  \/ \E idx \in Idx, ok \in BOOLEAN : WaitForSelector(idx, ok)
  \/ \E idx \in Idx, ok \in BOOLEAN, n \in 0 .. MaxRunners : Eval(idx, ok, n)
  \/ \E idx \in Idx : Retry(idx)
  \/ \E idx \in Idx : Finally(idx)

-----------------------------------------------------------------------------
(* Properties of the scraper *)

Settled(idx) == idx \in DOMAIN workers /\ workers[idx].st \in {"fulfilled", "rejected"}

\* C11, as the specification states it: no failure while a race is handled
\* (opening the page, installing the route, navigating, waiting, extracting)
\* rejects the worker or the pool; the batch resolves with one record per
\* race link.
C11_FailuresCaughtPerRace ==
  /\ \A idx \in DOMAIN workers : workers[idx].st # "rejected"
  /\ settled # "rejected"
  /\ settled = "fulfilled" => \A idx \in Idx : out[idx] = workers[idx].v

\* C12, as the specification states it: when the worker's call of
\* getRunnersForRace has returned or thrown, every page opened for the race,
\* by the first attempt or by the retry, has been closed.
C12_PagesClosedOnReturn ==
  \A idx \in DOMAIN pages :
    Settled(idx) => \A k \in 1 .. Len(pages[idx]) : pages[idx][k] = "closed"

\* C13: a race has at most two attempts; there is a second one only when the
\* first found zero runners without an exception, and then there is one; if
\* the second finds zero runners too, the race is returned with no runners
\* and no _error.
C13_RetryOnceOnEmpty ==
  \A idx \in DOMAIN tries :
    /\ Len(tries[idx]) <= 2
    /\ Len(tries[idx]) = 2 => tries[idx][1] = "empty"
    /\ (Settled(idx) /\ tries[idx][1] = "empty") => Len(tries[idx]) = 2
    /\ (Settled(idx) /\ Len(tries[idx]) = 2 /\ tries[idx][2] = "empty") =>
         /\ workers[idx].st = "fulfilled"
         /\ workers[idx].v = RaceRecord(RaceOf(idx), 0, Absent, Absent)

\* C13 witness: a race whose two attempts both found no runners, returned.
C13_Witness ==
  \E idx \in DOMAIN tries :
    /\ Settled(idx)
    /\ tries[idx] = <<"empty", "empty">>
    /\ workers[idx].v.runners = 0
    /\ workers[idx].v.error = Absent
    /\ Len(pages[idx]) = 2

\* C21: a call whose navigation ended on a "/results/" address goes straight
\* to its return (no wait for the runner cards, no extraction, no further
\* call), and the race comes back fulfilled with no runners, the marker
\* skipped_finished and no _error; the worker is not rejected.
SkippedRecord(idx) == RaceRecord(RaceOf(idx), 0, "skipped_finished", Absent)

WasRedirected(idx) == tries[idx] # <<>> /\ tries[idx][Len(tries[idx])] = "skipped"

C21_RedirectSkipsRace ==
  \A idx \in DOMAIN tries :
    /\ \A k \in 1 .. (Len(tries[idx]) - 1) : tries[idx][k] # "skipped"
    /\ WasRedirected(idx) =>
         /\ workers[idx].st # "rejected"
         /\ \A f \in 1 .. Len(frames[idx]) :
              \/ frames[idx][f].pc = "await" /\ f < Len(frames[idx])
              \/ frames[idx][f].pc = "finally" /\ frames[idx][f].ret = SkippedRecord(idx)
         /\ Settled(idx) => (workers[idx].st = "fulfilled" /\ workers[idx].v = SkippedRecord(idx))

\* C21 witness: a race redirected at its first navigation and one redirected
\* at the navigation of its retry, both returned as skipped.
C21_Witness ==
  \E a, b \in DOMAIN tries :
    /\ Settled(a) /\ tries[a] = <<"skipped">> /\ workers[a].v.note = "skipped_finished"
    /\ Settled(b) /\ tries[b] = <<"empty", "skipped">> /\ workers[b].v.note = "skipped_finished"
    /\ workers[b].v.error = Absent

\* the race pages that are open, over all tasks
OpenPages ==
  Cardinality({p \in (DOMAIN pages) \X (1 .. (RETRY_ON_EMPTY + 1)) :
                 p[2] <= Len(pages[p[1]]) /\ pages[p[1]][p[2]] = "open"})

\* a task has called its retry and its first call has not returned yet
RetryInProgress == \E idx \in DOMAIN frames : frames[idx] # <<>> /\ Len(tries[idx]) > 1

\* main() ends the process when the pool's promise rejects
\* (`main().catch(e => { ...; process.exit(1); })`)
ProcessAlive == settled # "rejected"

\* C29: while the scraper runs, at most 2 * limit race pages are open, and at
\* most limit of them when no retry is in progress.
C29_OpenPagesBounded ==
  ProcessAlive =>
    /\ OpenPages <= 2 * limit
    /\ ~RetryInProgress => OpenPages <= limit

-----------------------------------------------------------------------------
(* The analysis script: one worker per race, run through mapPool.  The        *)
(* worker calls callPerplexity in a loop of at most MaxAttempts attempts.     *)

MaxAttempts == 3

\* what axios.post comes to: a reply whose content parses to a shortlist, a
\* reply that does not, a reply whose shortlist holds a null entry, an HTTP
\* error reply, or no reply at all
HttpErrors == {400, 429, 500, 503}
Replies ==
  {[kind |-> "shortlist"], [kind |-> "other"], [kind |-> "null_item"], [kind |-> "no_reply"]}
    \cup {[kind |-> "http", status |-> st] : st \in HttpErrors}

\* callPerplexity: axios rejects with an error e that carries e.response for
\* an HTTP error reply; the catch throws a new Error whose message holds the
\* status.  The result is what the worker's try receives.
AxiosError(reply) ==
  IF reply.kind = "http"
  THEN [message |-> "http", response |-> [status |-> reply.status]]
  ELSE [message |-> "no_reply"]
callPerplexity(reply) ==
  IF reply.kind \in {"http", "no_reply"}
  THEN [threw |-> TRUE,
        e |-> [message |-> <<AxiosError(reply).message,
                             IF "response" \in DOMAIN AxiosError(reply)
                             THEN AxiosError(reply).response.status ELSE 0>>]]
  ELSE [threw |-> FALSE, parsed |-> reply.kind]

\* `e?.response?.status || 0`
StatusOf(e) == IF "response" \in DOMAIN e THEN e.response.status ELSE 0

\* `code === 429 || code >= 500`
Retryable(code) == code = 429 \/ code >= 500

\* `error_${code || 'unknown'}`
ErrorStatus(code) == IF code = 0 THEN <<"error", "unknown">> ELSE <<"error", code>>

AnaWorker == [pc |-> "loop", attempt |-> 0, calls |-> <<>>, status |-> <<"pending">>, error |-> Absent]

\* the catch of the worker's try, for the error e
AnaCatch(w, e) ==
  IF Retryable(StatusOf(e))
  THEN [w EXCEPT !.attempt = @ + 1]                             \* sleep, continue
  ELSE [w EXCEPT !.attempt = @ + 1, !.status = ErrorStatus(StatusOf(e)),
                 !.error = e.message, !.pc = "done"]

\* the body of the try, for what callPerplexity came to
AnaTry(w, res) ==
  IF res.threw THEN AnaCatch(w, res.e)
  ELSE IF res.parsed = "shortlist" THEN [w EXCEPT !.status = <<"ok">>, !.pc = "done"]
  ELSE IF res.parsed = "null_item"                              \* item.name throws
       THEN AnaCatch(w, [message |-> "TypeError"])
  ELSE [w EXCEPT !.status = <<"bad_json">>, !.pc = "done"]

\* one turn of `while (attempt < 3) { try { await callPerplexity(messages) ... } }`
AnaAttempt(idx, reply) ==
  /\ called
  /\ workers[idx].st = "pending"
  /\ ana[idx].pc = "loop"
  /\ ana[idx].attempt < MaxAttempts
  /\ ana' = [ana EXCEPT ![idx] = AnaTry([@ EXCEPT !.calls = Append(@, reply)],
                                        callPerplexity(reply))]
  /\ UNCHANGED <<poolVars, outsideAnalysis>>

\* the loop is left: the worker returns (undefined)
AnaReturn(idx) ==
  /\ called
  /\ workers[idx].st = "pending"
  /\ ana[idx].pc = "done" \/ ana[idx].attempt >= MaxAttempts
  /\ Fulfilled(idx, "undefined")
  /\ UNCHANGED <<ana, outsideAnalysis>>

AnaIdle == ana = <<>>

AnalysisInit ==
  /\ called = FALSE
  /\ items \in {[k \in 1 .. n |-> RaceLink(k)] : n \in 0 .. MaxRaces}   \* `input.races || []`
  /\ limit = CONCURRENCY
  /\ out = <<>>
  /\ i = 0
  /\ running = 0
  /\ workers = <<>>
  /\ jobs = <<>>
  /\ settled = "pending"
  /\ reason = NoReason
  /\ settleOrder = <<>>
  /\ ana = [idx \in 0 .. (Len(items) - 1) |-> AnaWorker]

AnalysisNext ==
  \/ MapPool
  \/ ThenJob
  \/ CatchJob
  \/ FinallyJob
  \/ \E idx \in Idx, reply \in Replies : AnaAttempt(idx, reply)
  \/ \E idx \in Idx : AnaReturn(idx)

-----------------------------------------------------------------------------
(* Properties of the analysis script *)

RateLimitedOrServerError(reply) ==
  reply.kind = "http" /\ (reply.status = 429 \/ reply.status >= 500)

\* C14, as the specification states it: a call that fails with HTTP 429 or
\* with a status of 500 or more is tried again, up to three attempts in all,
\* before the failure is recorded on the race; any other failure is recorded
\* at once.
C14_RetriesRateLimitAndServerErrors ==
  \A idx \in DOMAIN ana :
    LET w == ana[idx]
        last == w.calls[Len(w.calls)]
    IN (w.calls # <<>> /\ last.kind \in {"http", "no_reply", "null_item"}) =>
         /\ Len(w.calls) <= MaxAttempts
         /\ IF RateLimitedOrServerError(last) /\ Len(w.calls) < MaxAttempts
            THEN w.pc = "loop" /\ w.status = <<"pending">>
            ELSE w.status[1] = "error"

-----------------------------------------------------------------------------
(* Numbers.  The program computes with IEEE-754 doubles; whether a pick has   *)
(* expected value > 0 can rest on the last bit, so doubles are modelled       *)
(* exactly, over naturals of any size.                                        *)

(* Natural numbers of any size: little-endian sequences of limbs in base 2^15,
   without leading (high) zero limbs; <<>> is 0. *)
LimbBase == 2^15

RECURSIVE BTrim(_)
BTrim(a) == IF a = <<>> \/ a[Len(a)] # 0 THEN a ELSE BTrim(SubSeq(a, 1, Len(a) - 1))

BNat(n) == IF n = 0 THEN <<>> ELSE IF n < LimbBase THEN <<n>> ELSE
           IF n < LimbBase * LimbBase THEN <<n % LimbBase, n \div LimbBase>> ELSE <<n % LimbBase, (n \div LimbBase) % LimbBase, n \div (LimbBase * LimbBase)>>

Limb(a, k) == IF k <= Len(a) THEN a[k] ELSE 0
Max(x, y) == IF x >= y THEN x ELSE y

RECURSIVE BAddC(_, _, _, _)
BAddC(a, b, k, c) ==
  IF k > Max(Len(a), Len(b)) THEN (IF c = 0 THEN <<>> ELSE <<c>>)
  ELSE LET s == Limb(a, k) + Limb(b, k) + c
       IN <<s % LimbBase>> \o BAddC(a, b, k + 1, s \div LimbBase)
BAdd(a, b) == BAddC(a, b, 1, 0)

\* a - b for a >= b
RECURSIVE BSubC(_, _, _, _)
BSubC(a, b, k, c) ==
  IF k > Len(a) THEN <<>>
  ELSE LET s == a[k] - Limb(b, k) - c
       IN <<IF s < 0 THEN s + LimbBase ELSE s>> \o BSubC(a, b, k + 1, IF s < 0 THEN 1 ELSE 0)
BSub(a, b) == BTrim(BSubC(a, b, 1, 0))

\* -1, 0, 1
RECURSIVE BCmpAt(_, _, _)
BCmpAt(a, b, k) ==
  IF k = 0 THEN 0
  ELSE IF a[k] < b[k] THEN -1 ELSE IF a[k] > b[k] THEN 1 ELSE BCmpAt(a, b, k - 1)
BCmp(a, b) ==
  IF Len(a) < Len(b) THEN -1 ELSE IF Len(a) > Len(b) THEN 1 ELSE BCmpAt(a, b, Len(a))

\* a * m for a limb-sized m
RECURSIVE BMulSmallC(_, _, _, _)
BMulSmallC(a, m, k, c) ==
  IF k > Len(a) THEN (IF c = 0 THEN <<>> ELSE <<c>>)
  ELSE LET s == a[k] * m + c
       IN <<s % LimbBase>> \o BMulSmallC(a, m, k + 1, s \div LimbBase)
BMulSmall(a, m) == IF m = 0 THEN <<>> ELSE BMulSmallC(a, m, 1, 0)

Zeros(n) == [k \in 1 .. n |-> 0]

RECURSIVE BMulAt(_, _, _)
BMulAt(a, b, k) ==
  IF k > Len(b) THEN <<>>
  ELSE BAdd(IF b[k] = 0 THEN <<>> ELSE Zeros(k - 1) \o BMulSmall(a, b[k]), BMulAt(a, b, k + 1))
BMul(a, b) == IF a = <<>> \/ b = <<>> THEN <<>> ELSE BMulAt(a, b, 1)

\* a * 2^s
BShl(a, s) == IF a = <<>> THEN <<>> ELSE Zeros(s \div 15) \o BMulSmall(a, 2 ^ (s % 15))

\* floor(a / m) for a limb-sized m > 0, going down from the top limb with carry r
RECURSIVE BDivSmallC(_, _, _, _)
BDivSmallC(a, m, k, r) ==
  IF k = 0 THEN <<>>
  ELSE LET cur == r * LimbBase + a[k]
       IN BDivSmallC(a, m, k - 1, cur % m) \o <<cur \div m>>
BDivSmall(a, m) == BTrim(BDivSmallC(a, m, Len(a), 0))

\* floor(a / 2^s)
BShr(a, s) ==
  IF s \div 15 >= Len(a) THEN <<>>
  ELSE BDivSmall(SubSeq(a, s \div 15 + 1, Len(a)), 2 ^ (s % 15))

RECURSIVE BitLenSmall(_)
BitLenSmall(n) == IF n = 0 THEN 0 ELSE 1 + BitLenSmall(n \div 2)
BitLen(a) == IF a = <<>> THEN 0 ELSE 15 * (Len(a) - 1) + BitLenSmall(a[Len(a)])

Bit(a, k) == (Limb(a, k \div 15 + 1) \div (2 ^ (k % 15))) % 2   \* bit k, from 0
BOdd(a) == a # <<>> /\ a[1] % 2 = 1

\* a mod 2^s # 0
LowBitsSet(a, s) == BCmp(BShl(BShr(a, s), s), a) # 0

\* the largest q in lo .. hi with q * d <= r (lo * d <= r is given)
RECURSIVE QDigit(_, _, _, _)
QDigit(r, d, lo, hi) ==
  IF lo = hi THEN lo
  ELSE LET mid == (lo + hi + 1) \div 2
       IN IF BCmp(BMulSmall(d, mid), r) <= 0
          THEN QDigit(r, d, mid, hi)
          ELSE QDigit(r, d, lo, mid - 1)

\* long division, limb by limb from the top: [q, r] with n = q * d + r, r < d.
\* The top limb of d is at least LimbBase / 2, so the top limbs of the running
\* remainder and of d bracket each quotient limb closely.
RECURSIVE BDivModAt(_, _, _, _, _)
BDivModAt(n, d, k, q, r) ==
  IF k = 0 THEN [q |-> q, r |-> r]
  ELSE LET Step(r2, qd) ==
             BDivModAt(n, d, k - 1, BTrim(<<qd>> \o q), BSub(r2, BMulSmall(d, qd)))
           Estimate(r2, top) ==
             Step(r2, QDigit(r2, d, top \div (d[Len(d)] + 1),
                             IF top \div d[Len(d)] < LimbBase THEN top \div d[Len(d)]
                             ELSE LimbBase - 1))
           Bring(r2) == Estimate(r2, Limb(r2, Len(d) + 1) * LimbBase + Limb(r2, Len(d)))
       IN Bring(BTrim(<<n[k]>> \o r))
BDivMod(n, d) ==
  LET Back(qr, k) == [q |-> qr.q, r |-> BShr(qr.r, k)]
      Divide(n2, d2, k) == Back(BDivModAt(n2, d2, Len(n2), <<>>, <<>>), k)
      Normalised(k) == Divide(BShl(n, k), BShl(d, k), k)
  IN Normalised(15 - BitLenSmall(d[Len(d)]))

(* IEEE-754 binary64 values: sign s in {1, -1}, mantissa m (a natural of
   exactly 53 bits, or 0), exponent e: the value is s * m * 2^e.
   Round to nearest, ties to even. *)
FZero == [s |-> 1, m |-> <<>>, e |-> 0]

\* the double nearest to s * (q + f) * 2^e, where 0 <= f < 1 and f # 0 iff sticky;
\* q has at least 55 bits when sticky
RoundBits(s, q, sticky, e) ==
  IF q = <<>> THEN FZero
  ELSE LET Short(len) == [s |-> s, m |-> BShl(q, 53 - len), e |-> e - (53 - len)]
           Carry(m1, drop) ==
             IF BitLen(m1) = 54
             THEN [s |-> s, m |-> BShr(m1, 1), e |-> e + drop + 1]
             ELSE [s |-> s, m |-> m1, e |-> e + drop]
           Up(m0, drop) ==
             /\ Bit(q, drop - 1) = 1                               \* half or more
             /\ (sticky \/ LowBitsSet(q, drop - 1) \/ BOdd(m0))    \* above half, or odd
           Long(m0, drop) == Carry(IF Up(m0, drop) THEN BAdd(m0, <<1>>) ELSE m0, drop)
           Of(len) == IF len <= 53 THEN Short(len) ELSE Long(BShr(q, len - 53), len - 53)
       IN Of(BitLen(q))

\* the double nearest to s * (n / d) * 2^e
FRoundQ(s, n, d, e) ==
  IF n = <<>> THEN FZero
  ELSE LET Rounded(qr, sh) == RoundBits(s, qr.q, qr.r # <<>>, e - sh)
           Shifted(sh) ==
             Rounded(BDivMod(IF sh > 0 THEN BShl(n, sh) ELSE n,
                             IF sh < 0 THEN BShl(d, 0 - sh) ELSE d), sh)
       IN Shifted(56 + BitLen(d) - BitLen(n))

FInt(n) == RoundBits(1, BNat(n), FALSE, 0)
FMul(x, y) == RoundBits(x.s * y.s, BMul(x.m, y.m), FALSE, x.e + y.e)
FDiv(x, y) == FRoundQ(x.s * y.s, x.m, y.m, x.e - y.e)
FNeg(x) == [x EXCEPT !.s = 0 - x.s]
FAdd(x, y) ==
  IF x.m = <<>> THEN y ELSE IF y.m = <<>> THEN x
  ELSE LET Sum(a, b, e) ==
             RoundBits(IF x.s = y.s \/ BCmp(a, b) >= 0 THEN x.s ELSE y.s,
                       IF x.s = y.s THEN BAdd(a, b)
                       ELSE IF BCmp(a, b) >= 0 THEN BSub(a, b) ELSE BSub(b, a),
                       FALSE, e)
           Aligned(e) == Sum(BShl(x.m, x.e - e), BShl(y.m, y.e - e), e)
       IN Aligned(IF x.e <= y.e THEN x.e ELSE y.e)
FSub(x, y) == FAdd(x, FNeg(y))
\* -1, 0, 1 as x < y, x = y, x > y
FSign(x) == IF x.m = <<>> THEN 0 ELSE x.s
FCmp(x, y) == 
  IF x = y THEN 0
  ELSE IF FSign(x) # FSign(y) THEN (IF FSign(x) < FSign(y) THEN -1 ELSE 1)
  ELSE LET c == IF x.e # y.e THEN (IF x.e < y.e THEN -1 ELSE 1) ELSE BCmp(x.m, y.m)
       IN c * x.s

-----------------------------------------------------------------------------
(* Texts are sequences of one-character strings. *)

DigitChars == <<"0", "1", "2", "3", "4", "5", "6", "7", "8", "9">>
IsDigit(c) == \E d \in 1 .. 10 : DigitChars[d] = c
DigitVal(c) == (CHOOSE d \in 1 .. 10 : DigitChars[d] = c) - 1
IsSpace(c) == c = " "

NullText == <<"<null>">>     \* null / undefined in place of a text
Null == [null |-> TRUE]      \* null in place of a number

\* String.prototype.trim
RECURSIVE TrimLeft(_)
TrimLeft(s) == IF s # <<>> /\ IsSpace(Head(s)) THEN TrimLeft(Tail(s)) ELSE s
RECURSIVE TrimRight(_)
TrimRight(s) ==
  IF s # <<>> /\ IsSpace(s[Len(s)]) THEN TrimRight(SubSeq(s, 1, Len(s) - 1)) ELSE s
trim(s) == TrimRight(TrimLeft(s))

\* the position after the longest run of digits / of spaces that starts at k
RECURSIVE AfterDigits(_, _)
AfterDigits(s, k) == IF k <= Len(s) /\ IsDigit(s[k]) THEN AfterDigits(s, k + 1) ELSE k
RECURSIVE AfterSpaces(_, _)
AfterSpaces(s, k) == IF k <= Len(s) /\ IsSpace(s[k]) THEN AfterSpaces(s, k + 1) ELSE k

\* \d+(\.\d+)? matched greedily at k: the position after it (k if no match)
AfterDecimal(s, k) ==
  LET e1 == AfterDigits(s, k)
  IN IF e1 = k THEN k
     ELSE IF e1 <= Len(s) /\ s[e1] = "." /\ AfterDigits(s, e1 + 1) > e1 + 1
          THEN AfterDigits(s, e1 + 1)
          ELSE e1

\* \s*\/\s*(\d+) matched at k: [from, to) of the digits, or to = from if no match
SlashDigits(s, k) ==
  LET sl == AfterSpaces(s, k)
  IN IF sl <= Len(s) /\ s[sl] = "/"
     THEN LET b == AfterSpaces(s, sl + 1)
          IN [from |-> b, to |-> AfterDigits(s, b)]
     ELSE [from |-> k, to |-> k]

\* the natural number written by a run of digits
RECURSIVE DigitsNat(_)
DigitsNat(s) ==
  IF s = <<>> THEN <<>>
  ELSE IF Len(s) < 4
       THEN BAdd(BMulSmall(DigitsNat(SubSeq(s, 1, Len(s) - 1)), 10), BNat(DigitVal(s[Len(s)])))
  ELSE LET n == Len(s)                                 \* four digits at a time
           low == 1000 * DigitVal(s[n - 3]) + 100 * DigitVal(s[n - 2])
                  + 10 * DigitVal(s[n - 1]) + DigitVal(s[n])
       IN BAdd(BMulSmall(DigitsNat(SubSeq(s, 1, n - 4)), 10000), BNat(low))

RECURSIVE Pow10(_)
Pow10(k) ==
  IF k = 0 THEN <<1>>
  ELSE IF k < 4 THEN BMulSmall(Pow10(k - 1), 10)
  ELSE BMulSmall(Pow10(k - 4), 10000)

\* parseFloat / unary + on a text of the shape \d+(\.\d+)?: the nearest double
parseFloat(s) ==
  LET e1 == AfterDigits(s, 1)
      whole == SubSeq(s, 1, e1 - 1)
      frac == SubSeq(s, e1 + 1, Len(s))
  IN FRoundQ(1, DigitsNat(whole \o frac), Pow10(Len(frac)), 0)

FOne == FInt(1)
IsPositive(x) == FSign(x) = 1

\* /^\d+(\.\d+)?$/.test(s)
IsPureDecimal(s) == s # <<>> /\ AfterDecimal(s, 1) = Len(s) + 1

\* s.match(/^(\d+)\s*\/\s*(\d+)$/): [a, b] or Null
MatchFrac(s) ==
  LET e1 == AfterDigits(s, 1)
      sd == SlashDigits(s, e1)
  IN IF e1 > 1 /\ sd.to > sd.from /\ sd.to = Len(s) + 1
     THEN [a |-> SubSeq(s, 1, e1 - 1), b |-> SubSeq(s, sd.from, sd.to - 1)]
     ELSE Null

\* s.match(/(\d+(?:\.\d+)?)(?:\s*\/\s*(\d+))?/): the leftmost match, [g1, g2]
\* with g2 = NullText when the optional group did not take part, or Null
MatchNum(s) ==
  LET starts == {k \in 1 .. Len(s) : IsDigit(s[k])}
  IN IF starts = {} THEN Null
     ELSE LET k == CHOOSE k \in starts : \A j \in starts : k <= j
              e1 == AfterDecimal(s, k)
              sd == SlashDigits(s, e1)
          IN [g1 |-> SubSeq(s, k, e1 - 1),
              g2 |-> IF sd.to > sd.from THEN SubSeq(s, sd.from, sd.to - 1) ELSE NullText]

\* `if (b > 0) return a / b + 1;` of the whole-text fraction
FracAccepts(b) == IsPositive(b)

\* `if (b) return a / b + 1;` of the embedded fraction
FragAccepts(b) == FSign(b) # 0

toDec_numberFirst(o) ==
  IF o = NullText \/ o = <<>> THEN Null
  ELSE IF MatchNum(trim(o)) # Null THEN parseFloat(MatchNum(trim(o)).g1)
  ELSE Null

toDec(o) ==
  IF o = NullText \/ o = <<>> THEN Null                       \* if (!odds) return null
  ELSE LET s == trim(o)
           frac == MatchFrac(s)
           num == MatchNum(s)
       IN IF IsPureDecimal(s) THEN parseFloat(s)
          ELSE IF frac # Null /\ FracAccepts(parseFloat(frac.b))
               THEN FAdd(FDiv(parseFloat(frac.a), parseFloat(frac.b)), FOne)
          ELSE IF num # Null
               THEN IF num.g2 # NullText /\ FragAccepts(parseFloat(num.g2))
                    THEN FAdd(FDiv(parseFloat(num.g1), parseFloat(num.g2)), FOne)
                    ELSE parseFloat(num.g1)
          ELSE Null

-----------------------------------------------------------------------------
(* Number to text: String(x) and x.toFixed(f), for x >= 0 *)

\* the decimal digits of a natural, most significant first (<<>> for 0)
RECURSIVE NatDigits(_)
NatDigits(a) ==
  IF a = <<>> THEN <<>>
  ELSE IF Len(a) = 1 /\ a[1] < 10000
       THEN LET One(q) == Append(NatDigits(q), DigitChars[(a[1] - 10 * Limb(q, 1)) + 1])
            IN One(BDivSmall(a, 10))
  ELSE LET Four(q, low) ==                             \* four digits at a time
             NatDigits(q) \o <<DigitChars[(low \div 1000) + 1],
                               DigitChars[((low \div 100) % 10) + 1],
                               DigitChars[((low \div 10) % 10) + 1],
                               DigitChars[(low % 10) + 1]>>
           Rest(q) == Four(q, Limb(BSub(a, BMulSmall(q, 10000)), 1))
       IN Rest(BDivSmall(a, 10000))

Pos(n) == IF n > 0 THEN n ELSE 0

\* x / 10^j as [q, r, den]: x = (q + r / den) * 10^j with 0 <= r < den
Scaled(x, j) ==
  LET Parts(qr, den) == [q |-> qr.q, r |-> qr.r, den |-> den]
      Over(den) == Parts(BDivMod(BMul(BShl(x.m, Pos(x.e)), Pow10(Pos(0 - j))), den), den)
  IN Over(BMul(BShl(<<1>>, Pos(0 - x.e)), Pow10(Pos(j))))

\* the double nearest to s * 10^j
FDecimal(s, j) ==
  IF j >= 0 THEN FRoundQ(1, BMul(s, Pow10(j)), <<1>>, 0) ELSE FRoundQ(1, s, Pow10(0 - j), 0)

\* floor(log10(x)) for x > 0
RECURSIVE Log10Down(_, _)
Log10Down(x, t) == IF Scaled(x, 0 - t).q # <<>> THEN 0 - t ELSE Log10Down(x, t + 1)
Log10(x) ==
  LET Of(whole) == IF whole # <<>> THEN Len(NatDigits(whole)) - 1 ELSE Log10Down(x, 1)
  IN Of(Scaled(x, 0).q)

\* Number::toString, step 5: the s * 10^j with nd digits that reads back as x,
\* the one closest to x if two do (the even one on a tie); Null if none does
ReadsBack(x, e10, nd) ==
  LET Decide(sc, j, okLo, okHi, c) ==
        IF okLo /\ (c < 0 \/ (c = 0 /\ ~BOdd(sc.q)) \/ ~okHi) THEN [s |-> sc.q, j |-> j]
        ELSE IF okHi THEN [s |-> BAdd(sc.q, <<1>>), j |-> j]
        ELSE Null
      Try(sc, j) ==
        Decide(sc, j, FDecimal(sc.q, j) = x, FDecimal(BAdd(sc.q, <<1>>), j) = x,
               BCmp(BShl(sc.r, 1), sc.den))
  IN Try(Scaled(x, e10 - nd + 1), e10 - nd + 1)

\* ... with as few digits as possible (17 always suffice)
Shortest(x, e10) ==
  ReadsBack(x, e10, CHOOSE nd \in 1 .. 17 :
                      /\ ReadsBack(x, e10, nd) # Null
                      /\ nd = 1 \/ ReadsBack(x, e10, nd - 1) = Null)

RECURSIVE StripZeros(_)
StripZeros(d) ==
  IF d.digits # <<>> /\ d.digits[Len(d.digits)] = "0"
  THEN StripZeros([digits |-> SubSeq(d.digits, 1, Len(d.digits) - 1), j |-> d.j + 1])
  ELSE d

Repeat(c, n) == [k \in 1 .. n |-> c]

\* String(x) for a number x >= 0 (Number::toString)
NumberToString(x) ==
  IF x.m = <<>> THEN <<"0">>
  ELSE LET Layout(digits, k, n) ==
             IF k <= n /\ n <= 21 THEN digits \o Repeat("0", n - k)
             ELSE IF 0 < n /\ n <= 21
                  THEN SubSeq(digits, 1, n) \o <<".">> \o SubSeq(digits, n + 1, k)
             ELSE IF -6 < n /\ n <= 0
                  THEN <<"0", ".">> \o Repeat("0", 0 - n) \o digits
             ELSE (IF k = 1 THEN digits ELSE <<digits[1], ".">> \o SubSeq(digits, 2, k))
                  \o <<"e", IF n - 1 >= 0 THEN "+" ELSE "-">>
                  \o NatDigits(BNat(IF n - 1 >= 0 THEN n - 1 ELSE 1 - n))
           Stripped(d) == Layout(d.digits, Len(d.digits), Len(d.digits) + d.j)
           Digits(sh) == Stripped(StripZeros([digits |-> NatDigits(sh.s), j |-> sh.j]))
       IN Digits(Shortest(x, Log10(x)))

\* x.toFixed(f) for 0 <= x < 10^21: n / 10^f nearest to x, the larger n on a tie
toFixed(x, f) ==
  LET Layout(padded) ==
        IF f = 0 THEN padded
        ELSE SubSeq(padded, 1, Len(padded) - f) \o <<".">>
             \o SubSeq(padded, Len(padded) - f + 1, Len(padded))
      Padded(ds) == Layout(IF Len(ds) < f + 1 THEN Repeat("0", f + 1 - Len(ds)) \o ds ELSE ds)
      Rounded(sc) ==
        Padded(NatDigits(IF BCmp(BShl(sc.r, 1), sc.den) >= 0 THEN BAdd(sc.q, <<1>>) ELSE sc.q))
  IN Rounded(Scaled(x, 0 - f))

-----------------------------------------------------------------------------
(* Scoring: impliedProb, adjustedProb, expectedValue, calcPotentialProfit *)

LowerOf(c) ==
  CASE c = "H" -> "h" [] c = "I" -> "i" [] c = "G" -> "g" [] c = "M" -> "m"
    [] c = "E" -> "e" [] c = "D" -> "d" [] c = "U" -> "u" [] c = "L" -> "l"
    [] c = "O" -> "o" [] c = "W" -> "w" [] OTHER -> c
toLowerCase(s) == [k \in 1 .. Len(s) |-> LowerOf(s[k])]

\* s.includes(sub)
includes(s, sub) ==
  \E k \in 1 .. (Len(s) - Len(sub) + 1) : SubSeq(s, k, k + Len(sub) - 1) = sub

\* a || '' and the truthiness of a text
OrEmpty(t) == IF t = NullText THEN <<>> ELSE t
Truthy(t) == t # NullText /\ t # <<>>

\* p.exchange || p.exc_dec || p.odds || p.odds_note: the picks written by the
\* analysis stage carry odds_note only
OddsOf(p) == p.odds_note

\* the literals 1.10, 1.05, 0.95, 0.99 and 3
F110 == parseFloat(<<"1", ".", "1", "0">>)
F105 == parseFloat(<<"1", ".", "0", "5">>)
F095 == parseFloat(<<"0", ".", "9", "5">>)
F099 == parseFloat(<<"0", ".", "9", "9">>)
FThree == FInt(3)

\* `d && d > 1 ? 1 / d : 0`
AboveOne_zero(d) == d # Null /\ FSign(d) = 1
AboveOne(d) == d # Null /\ FSign(d) # 0 /\ FCmp(d, FOne) = 1

impliedProb(o) ==
  LET Of(d) == IF AboveOne(d) THEN FDiv(FOne, d) ELSE FZero
  IN Of(toDec(o))

adjustedProb_uncapped(pick) ==
  LET conf == toLowerCase(OrEmpty(pick.confidence))
      FormHas0(p) ==
        IF Truthy(pick.form) /\ includes(pick.form, <<"0">>) THEN FMul(p, F095) ELSE p
      FormHas1(p) ==
        FormHas0(IF Truthy(pick.form) /\ includes(pick.form, <<"1">>) THEN FMul(p, F105) ELSE p)
      Confidence(p) ==
        FormHas1(IF includes(conf, <<"h", "i", "g", "h">>) THEN FMul(p, F110)
                 ELSE IF includes(conf, <<"m", "e", "d", "i", "u", "m">>) THEN FMul(p, F105)
                 ELSE p)
  IN Confidence(impliedProb(OddsOf(pick)))

adjustedProb_both(pick) ==
  LET conf == toLowerCase(OrEmpty(pick.confidence))
      Capped(p) == IF FCmp(p, F099) < 0 THEN p ELSE F099
      FormHas0(p) ==
        Capped(IF Truthy(pick.form) /\ includes(pick.form, <<"0">>) THEN FMul(p, F095) ELSE p)
      FormHas1(p) ==
        FormHas0(IF Truthy(pick.form) /\ includes(pick.form, <<"1">>) THEN FMul(p, F105) ELSE p)
      Medium(p) ==
        FormHas1(IF includes(conf, <<"m", "e", "d", "i", "u", "m">>) THEN FMul(p, F105) ELSE p)
      Confidence(p) ==
        Medium(IF includes(conf, <<"h", "i", "g", "h">>) THEN FMul(p, F110) ELSE p)
  IN Confidence(impliedProb(OddsOf(pick)))

adjustedProb(pick) ==
  LET conf == toLowerCase(OrEmpty(pick.confidence))
      Capped(p) == IF FCmp(p, F099) < 0 THEN p ELSE F099         \* Math.min(p, 0.99)
      FormHas0(p) ==
        Capped(IF Truthy(pick.form) /\ includes(pick.form, <<"0">>) THEN FMul(p, F095) ELSE p)
      FormHas1(p) ==
        FormHas0(IF Truthy(pick.form) /\ includes(pick.form, <<"1">>) THEN FMul(p, F105) ELSE p)
      Confidence(p) ==
        FormHas1(IF includes(conf, <<"h", "i", "g", "h">>) THEN FMul(p, F110)
                 ELSE IF includes(conf, <<"m", "e", "d", "i", "u", "m">>) THEN FMul(p, F105)
                 ELSE p)
  IN Confidence(impliedProb(OddsOf(pick)))

expectedValue(pr, oddsDec) ==
  IF oddsDec = Null \/ FSign(oddsDec) = 0 \/ FSign(pr) = 0 THEN FNeg(FOne)
  ELSE FSub(FMul(pr, FSub(oddsDec, FOne)), FSub(FOne, pr))

\* toDec(p.oddsDec): the number goes through String() and is parsed again
toDecOfNumber(x) ==
  IF x = Null \/ FSign(x) = 0 THEN Null ELSE toDec(NumberToString(x))

\* `const profit = dec - 3;` (null - 3 is -3)
ProfitOf(p) ==
  LET Of(d) == IF d = Null THEN FNeg(FThree) ELSE FSub(d, FThree)
  IN Of(toDecOfNumber(p.oddsDec))

RECURSIVE calcPotentialProfit(_)
calcPotentialProfit(ps) ==
  IF ps = <<>> THEN FNeg(FOne)
  ELSE LET Of(profit) == IF IsPositive(profit) THEN profit ELSE calcPotentialProfit(Tail(ps))
       IN Of(ProfitOf(Head(ps)))

-----------------------------------------------------------------------------
(* The result extractor (scrape-results.js): main() goes through the races   *)
(* of the archived picks file one after the other.                            *)

MaxArchive == 2
MaxName == 3

\* \s of the regular expression
IsWhite(c) == c \in {" ", "\t"}

\* s.replace(/\s+/g, ' ')
RECURSIVE CollapseWhite(_)
CollapseWhite(s) ==
  IF s = <<>> THEN <<>>
  ELSE IF IsWhite(Head(s))
       THEN IF Len(s) > 1 /\ IsWhite(s[2]) THEN CollapseWhite(Tail(s))
            ELSE <<" ">> \o CollapseWhite(Tail(s))
  ELSE <<Head(s)>> \o CollapseWhite(Tail(s))

\* `const norm = s => (s||'').toLowerCase().replace(/\s+/g,' ').trim();`
norm_exact(s) == OrEmpty(s)
norm(s) == trim(CollapseWhite(toLowerCase(OrEmpty(s))))

\* `race.shortlist || []`
ShortlistOrEmpty(race) == IF race.hasShortlist THEN race.shortlist ELSE <<>>

\* `winner ? shortlist.some(p => norm(p.name) === norm(winner.name)) : false`
HitOf(race, winner) ==
  /\ winner # Null
  /\ \E k \in 1 .. Len(ShortlistOrEmpty(race)) :
       norm(ShortlistOrEmpty(race)[k].name) = norm(winner.name)

\* the records pushed in the try ...
ResultRecord(k, race, winner) ==
  [race |-> k, winner |-> winner, hit |-> HitOf(race, winner), error |-> Absent]
UpdatedRace(k, race, winner) ==
  [race |-> k, shortlist |-> race.shortlist, result |-> winner, hit |-> HitOf(race, winner)]
\* ... and in the catch
FailedResult(k, race, e) == [race |-> k, winner |-> Null, hit |-> FALSE, error |-> e]
FailedRace(k, race) == [race |-> k, shortlist |-> race.shortlist, result |-> Null, hit |-> FALSE]

ThisRace == archive[rk + 1]
NoTarget == [st |-> "none", date |-> <<>>]
NoFiles == [written |-> FALSE, results |-> <<>>, races |-> <<>>]

\* `const resultsUrl = toResultsUrl(race.url); const page = await context.newPage();`
\* (before the try): toResultsUrl throws for a race without url
OpenResultPage(ok) ==
  /\ rpc = "open"
  /\ rk < Len(archive)
  /\ IF ThisRace.url # Absent /\ ok
     THEN rpc' = "extract" /\ rpage' = "open"
     ELSE rpc' = "aborted" /\ UNCHANGED rpage              \* main's promise rejects
  /\ UNCHANGED <<archive, rk, outResults, updatedRaces, files, startVars, outsideResults>>

\* the try up to the two pushes: route, goto, cookie click, waitForTimeout,
\* extractWinner, hit
ExtractResult(ok, winner) ==
  /\ rpc = "extract"
  /\ IF ok
     THEN /\ outResults' = Append(outResults, ResultRecord(rk + 1, ThisRace, winner))
          /\ updatedRaces' = Append(updatedRaces, UpdatedRace(rk + 1, ThisRace, winner))
          /\ rpc' = "close"
     ELSE /\ rpc' = "catch"
          /\ UNCHANGED <<outResults, updatedRaces>>
  /\ UNCHANGED <<archive, rk, rpage, files, startVars, outsideResults>>

\* `await page.close();` and the pacing delay, still in the try
CloseResultPage(ok) ==
  /\ rpc = "close"
  /\ IF ok
     THEN rpage' = "closed" /\ rpc' = "open" /\ rk' = rk + 1
     ELSE rpc' = "catch" /\ UNCHANGED <<rpage, rk>>
  /\ UNCHANGED <<archive, outResults, updatedRaces, files, startVars, outsideResults>>

\* `catch (e) { try { await page.close(); } catch {} outResults.push(...); updatedRaces.push(...); }`
CatchResult ==
  /\ rpc = "catch"
  /\ rpage' = "closed"
  /\ outResults' = Append(outResults, FailedResult(rk + 1, ThisRace, "failed"))
  /\ updatedRaces' = Append(updatedRaces, FailedRace(rk + 1, ThisRace))
  /\ rpc' = "open"
  /\ rk' = rk + 1
  /\ UNCHANGED <<archive, files, startVars, outsideResults>>

\* after the loop: context and browser are closed, both files are written
WriteResults ==
  /\ rpc = "open"
  /\ rk = Len(archive)
  /\ rpc' = "written"
  /\ browser' = "closed"
  /\ files' = [written |-> TRUE, results |-> outResults, races |-> updatedRaces]
  /\ UNCHANGED <<archive, rk, rpage, outResults, updatedRaces, argv, target, exited, onDisk,
                 outsideResults>>

\* the winner's name: a text of capitals, blanks and tabs, or missing
NameChars == {"H", " ", "\t"}
Names == SeqsUpTo(NameChars, MaxName) \cup {NullText}

\* what extractWinner returns: null or a winner with a name (null in strategy 3
\* when the anchor has no text)
Winners == {Null} \cup {[name |-> n] : n \in Names}

\* the names of the archived shortlists
ShortlistNames == {<<"H", " ", "h">>, <<"h">>, <<" ">>, NullText}
ArchivedShortlists ==
  {<<>>} \cup {<<[name |-> n]>> : n \in ShortlistNames}
    \cup {<<[name |-> <<"h">>], [name |-> <<"h", "\t", " ", "H">>]>>}
ArchivedRaces ==
  {[url |-> "u", hasShortlist |-> TRUE, shortlist |-> s] : s \in ArchivedShortlists}
    \cup {[url |-> "u", hasShortlist |-> FALSE, shortlist |-> <<>>],
          [url |-> Absent, hasShortlist |-> TRUE, shortlist |-> <<>>]}

ResIdle ==
  /\ archive = <<>> /\ rk = 0 /\ rpc = "idle" /\ rpage = "none"
  /\ outResults = <<>> /\ updatedRaces = <<>> /\ files = NoFiles
  /\ argv = <<>> /\ target = NoTarget /\ browser = "none" /\ exited = "none"
  /\ onDisk = FALSE

ResultsInit ==
  /\ archive \in SeqsUpTo(ArchivedRaces, MaxArchive)
  /\ rk = 0
  /\ rpc = "open"
  /\ rpage = "none"
  /\ outResults = <<>>
  /\ updatedRaces = <<>>
  /\ files = NoFiles
  /\ argv = <<>>
  /\ target = NoTarget
  /\ browser = "launched"
  /\ exited = "none"
  /\ onDisk = TRUE

ResultsNext ==
  \/ \E ok \in BOOLEAN : OpenResultPage(ok)
  \/ \E ok \in BOOLEAN, winner \in Winners : ExtractResult(ok, winner)
  \/ \E ok \in BOOLEAN : CloseResultPage(ok)
  \/ CatchResult
  \/ WriteResults

-----------------------------------------------------------------------------
(* The start of the result extractor: getTargetDateFromArgs, the test for    *)
(* the archived picks file, the launch of the browser.  Dates are texts; a   *)
(* Date is a record of year, month index (0 = January) and day of month.     *)

\* s.startsWith(pre), and the places of "=" in a text
startsWith(s, pre) == Len(s) >= Len(pre) /\ SubSeq(s, 1, Len(pre)) = pre
EqualsAt(s) == {k \in 1 .. Len(s) : s[k] = "="}

\* eqArg.split('=')[1], for a text that holds "="
SecondPart(s) ==
  LET first == CHOOSE k \in EqualsAt(s) : \A j \in EqualsAt(s) : k <= j
      later == {k \in EqualsAt(s) : k > first}
  IN SubSeq(s, first + 1,
            IF later = {} THEN Len(s) ELSE (CHOOSE k \in later : \A j \in later : k <= j) - 1)

\* Number(text) of a run of digits, and String(n) of a natural number
RECURSIVE TextNat(_)
TextNat(s) == IF s = <<>> THEN 0 ELSE 10 * TextNat(SubSeq(s, 1, Len(s) - 1)) + DigitVal(s[Len(s)])
RECURSIVE NatText(_)
NatText(n) == IF n < 10 THEN <<DigitChars[n + 1]>> ELSE NatText(n \div 10) \o <<DigitChars[(n % 10) + 1]>>

\* String(n).padStart(2, '0')
pad(n) == IF n < 10 THEN <<"0">> \o NatText(n) ELSE NatText(n)

IsLeap(y) == (y % 4 = 0 /\ y % 100 # 0) \/ y % 400 = 0
DaysIn(y, m) ==
  IF m = 1 THEN (IF IsLeap(y) THEN 29 ELSE 28)
  ELSE IF m \in {3, 5, 8, 10} THEN 30 ELSE 31

\* the day of the month brought into the month, as the Date constructor does
RECURSIVE NormDay(_, _, _)
NormDay(y, m, d) ==
  IF d < 1
  THEN IF m = 0 THEN NormDay(y - 1, 11, d + DaysIn(y - 1, 11))
       ELSE NormDay(y, m - 1, d + DaysIn(y, m - 1))
  ELSE IF d > DaysIn(y, m)
       THEN IF m = 11 THEN NormDay(y + 1, 0, d - DaysIn(y, m))
            ELSE NormDay(y, m + 1, d - DaysIn(y, m))
  ELSE [y |-> y, m |-> m, d |-> d]

\* new Date(year, monthIndex, day): a year from 0 to 99 stands for 1900 + year;
\* a month index or a day outside its range carries over.  The time value is
\* finite for every year of four digits.
NewDate(year, monthIndex, day) ==
  LET y == IF year <= 99 THEN 1900 + year ELSE year
  IN NormDay(y + (monthIndex \div 12), monthIndex % 12, day)

\* `${d.getFullYear()}-${pad(d.getMonth() + 1)}-${pad(d.getDate())}`
toYMD(date) == NatText(date.y) \o <<"-">> \o pad(date.m + 1) \o <<"-">> \o pad(date.d)

DigitsAt(s, from, to) == \A k \in from .. to : IsDigit(s[k])

\* /^(\d{4})-(\d{2})-(\d{2})$/ and /^(\d{2})\/(\d{2})\/(\d{4})$/
IsISO(s) ==
  /\ Len(s) = 10 /\ s[5] = "-" /\ s[8] = "-"
  /\ DigitsAt(s, 1, 4) /\ DigitsAt(s, 6, 7) /\ DigitsAt(s, 9, 10)
IsDMY(s) ==
  /\ Len(s) = 10 /\ s[3] = "/" /\ s[6] = "/"
  /\ DigitsAt(s, 1, 2) /\ DigitsAt(s, 4, 5) /\ DigitsAt(s, 7, 10)

\* the date text, or NullText for null
parseDateFlexible(s) ==
  IF s = NullText \/ s = <<>> THEN NullText
  ELSE IF IsISO(trim(s))
       THEN toYMD(NewDate(TextNat(SubSeq(trim(s), 1, 4)), TextNat(SubSeq(trim(s), 6, 7)) - 1,
                          TextNat(SubSeq(trim(s), 9, 10))))
  ELSE IF IsDMY(trim(s))
       THEN toYMD(NewDate(TextNat(SubSeq(trim(s), 7, 10)), TextNat(SubSeq(trim(s), 4, 5)) - 1,
                          TextNat(SubSeq(trim(s), 1, 2))))
  ELSE NullText

FlagToday == <<"-", "-", "t", "o", "d", "a", "y">>
FlagYesterday == <<"-", "-", "y", "e", "s", "t", "e", "r", "d", "a", "y">>
FlagDate == <<"-", "-", "d", "a", "t", "e">>
FlagDateEq == <<"-", "-", "d", "a", "t", "e", "=">>

\* the clock: new Date(), and new Date(Date.now() - 24 * 60 * 60 * 1000)
Now == [y |-> 2024, m |-> 2, d |-> 1]
DayBefore(date) == NormDay(date.y, date.m, date.d - 1)

Returned(date) == [st |-> "returned", date |-> date]
Threw == [st |-> "threw", date |-> <<>>]

\* `if (parsed) return parsed; throw new Error(...)`
ParsedOrThrow(parsed) == IF parsed # NullText THEN Returned(parsed) ELSE Threw

HasArg(args, a) == \E k \in 1 .. Len(args) : args[k] = a
\* args.find(a => a.startsWith('--date=')) and args.indexOf('--date')
FirstWith(args, pre) ==
  args[CHOOSE k \in 1 .. Len(args) :
         startsWith(args[k], pre) /\ \A j \in 1 .. (k - 1) : ~startsWith(args[j], pre)]
IndexOf(args, a) ==
  CHOOSE k \in 1 .. Len(args) : args[k] = a /\ \A j \in 1 .. (k - 1) : args[j] # a

getTargetDateFromArgs(args) ==
  IF HasArg(args, FlagToday) THEN Returned(toYMD(Now))
  ELSE IF HasArg(args, FlagYesterday) THEN Returned(toYMD(DayBefore(Now)))
  ELSE IF \E k \in 1 .. Len(args) : startsWith(args[k], FlagDateEq)
       THEN ParsedOrThrow(parseDateFlexible(SecondPart(FirstWith(args, FlagDateEq))))
  ELSE IF HasArg(args, FlagDate) /\ IndexOf(args, FlagDate) < Len(args)
          /\ args[IndexOf(args, FlagDate) + 1] # <<>>
       THEN ParsedOrThrow(parseDateFlexible(args[IndexOf(args, FlagDate) + 1]))
  ELSE Returned(toYMD(DayBefore(Now)))

\* `const date = getTargetDateFromArgs();`: an error thrown here rejects main's
\* promise
GetTargetDate ==
  /\ rpc = "start"
  /\ target' = getTargetDateFromArgs(argv)
  /\ rpc' = IF getTargetDateFromArgs(argv).st = "threw" THEN "rejected" ELSE "exists"
  /\ UNCHANGED <<archive, rk, rpage, outResults, updatedRaces, files, argv, onDisk,
                 browser, exited, outsideResults>>

\* `if (!fs.existsSync(picksFile)) { console.error(...); process.exit(0); }`
CheckArchive_goesOn ==
  /\ rpc = "exists"
  /\ rpc' = "read"
  /\ UNCHANGED <<archive, rk, rpage, outResults, updatedRaces, files, startVars, outsideResults>>

CheckArchive ==
  /\ rpc = "exists"
  /\ IF onDisk THEN rpc' = "read" /\ UNCHANGED exited
     ELSE rpc' = "exited" /\ exited' = "0"
  /\ UNCHANGED <<archive, rk, rpage, outResults, updatedRaces, files, argv, target, onDisk,
                 browser, outsideResults>>

\* `const picks = JSON.parse(fs.readFileSync(picksFile, 'utf8'));`
ReadArchive(ok) ==
  /\ rpc = "read"
  /\ rpc' = IF ok /\ onDisk THEN "launch" ELSE "rejected"
  /\ UNCHANGED <<archive, rk, rpage, outResults, updatedRaces, files, startVars, outsideResults>>

\* `const browser = await chromium.launch(...); const context = await
\* browser.newContext(...);`
LaunchBrowser(launched, context) ==
  /\ rpc = "launch"
  /\ browser' = IF launched THEN "launched" ELSE "none"
  /\ rpc' = IF launched /\ context THEN "open" ELSE "rejected"
  /\ UNCHANGED <<archive, rk, rpage, outResults, updatedRaces, files, argv, target, onDisk,
                 exited, outsideResults>>

\* the arguments: no flag, a flag without value, a date of either form with
\* years, months and days inside and outside the calendar, other texts
Years == {<<"2", "0", "2", "4">>, <<"2", "0", "2", "3">>, <<"0", "0", "2", "4">>}
Months == {<<"0", "0">>, <<"0", "2">>, <<"1", "2">>, <<"1", "3">>}
Days == {<<"0", "0">>, <<"0", "1">>, <<"2", "9">>, <<"3", "0">>, <<"3", "2">>}
DateValues ==
  {y \o <<"-">> \o m \o <<"-">> \o d : y \in Years, m \in Months, d \in Days}
    \cup {d \o <<"/">> \o m \o <<"/">> \o y : y \in Years, m \in Months, d \in Days}
    \cup {<<"x">>, <<"2", "0", "2", "4", "-", "2", "-", "1">>, <<" ", "2", "0", "2", "4", "-", "0", "2", "-", "0", "1">>, <<"2", "0", "2", "4", "/", "0", "2", "/", "0", "1">>, <<"-", "-", "t", "o", "d", "a", "y">>}
ArgLists ==
  {<<FlagDate, v>> : v \in DateValues}
    \cup {<<FlagDateEq \o v>> : v \in DateValues}
    \cup {<<>>, <<FlagDate>>, <<FlagToday>>, <<FlagYesterday>>,
          <<FlagDate, <<"2", "0", "2", "4", "-", "0", "2", "-", "3", "0">>, FlagYesterday>>,
          <<FlagDateEq \o <<"2", "0", "2", "4", "-", "0", "2", "-", "0", "1">> \o <<"=">>, FlagDate, <<"2", "0", "2", "3", "-", "1", "2", "-", "0", "1">>>>}

StartWinners == {Null, [name |-> <<"H">>]}
StartArchives ==
  {<<>>, <<[url |-> "u", hasShortlist |-> TRUE, shortlist |-> <<[name |-> <<"h">>]>>]>>}

StartInit ==
  /\ argv \in ArgLists
  /\ onDisk \in BOOLEAN
  /\ archive \in IF onDisk THEN StartArchives ELSE {<<>>}
  /\ target = NoTarget
  /\ browser = "none"
  /\ exited = "none"
  /\ rk = 0
  /\ rpc = "start"
  /\ rpage = "none"
  /\ outResults = <<>>
  /\ updatedRaces = <<>>
  /\ files = NoFiles

StartNext ==
  \/ GetTargetDate
  \/ CheckArchive
  \/ \E ok \in BOOLEAN : ReadArchive(ok)
  \/ \E launched \in BOOLEAN, context \in BOOLEAN : LaunchBrowser(launched, context)
  \/ \E ok \in BOOLEAN : OpenResultPage(ok)
  \/ \E ok \in BOOLEAN, winner \in StartWinners : ExtractResult(ok, winner)
  \/ \E ok \in BOOLEAN : CloseResultPage(ok)
  \/ CatchResult
  \/ WriteResults

-----------------------------------------------------------------------------
(* Properties of the result extractor *)

\* C15, as the specification states it: the run ends with both files written,
\* the results file holding one record per archived race and the archive one
\* race per archived race, the i-th for the i-th, also when the processing of
\* a race raises an exception at some step.
C15_OneRecordPerRace ==
  /\ rpc # "aborted"
  /\ files.written =>
       /\ Len(files.results) = Len(archive)
       /\ Len(files.races) = Len(archive)
       /\ \A k \in 1 .. Len(archive) :
            files.results[k].race = k /\ files.races[k].race = k

\* the words of a text: its maximal runs of characters that are not white
RECURSIVE Words(_, _)
Words(s, word) ==
  IF s = <<>> THEN (IF word = <<>> THEN <<>> ELSE <<word>>)
  ELSE IF IsWhite(Head(s))
       THEN (IF word = <<>> THEN <<>> ELSE <<word>>) \o Words(Tail(s), <<>>)
  ELSE Words(Tail(s), Append(word, LowerOf(Head(s))))

\* the same name but for case and white space (a missing name is an empty one)
SameName(a, b) == Words(OrEmpty(a), <<>>) = Words(OrEmpty(b), <<>>)

\* C16: in every record pushed for a race whose extraction succeeded, hit is
\* true exactly when a winner was extracted and its name is the name of some
\* shortlist entry but for case and white space (runs of white space count as
\* one blank, white space at the ends does not count); it is false for a null
\* winner, for an empty or missing shortlist and in a record of a failure.
C16_HitIffNormalisedNameMatches ==
  \A k \in 1 .. Len(outResults) :
    LET rec == outResults[k]
        race == archive[rec.race]
    IN /\ rec.hit = (/\ rec.winner # Null
                      /\ \E j \in 1 .. Len(race.shortlist) :
                           SameName(race.shortlist[j].name, rec.winner.name))
       /\ (rec.winner = Null \/ ~race.hasShortlist \/ race.shortlist = <<>>) => ~rec.hit
       /\ updatedRaces[k].hit = rec.hit

\* C16 witness: a hit between "h <tab> <blank> H" in the shortlist and the
\* winner "H<tab>H", next to a record without hit whose winner has a name.
C16_Witness ==
  \E k, m \in 1 .. Len(outResults) :
    /\ outResults[k].hit
    /\ outResults[k].winner.name = <<"H", "\t", "H">>
    /\ Len(archive[outResults[k].race].shortlist) = 2
    /\ ~outResults[m].hit
    /\ outResults[m].winner # Null
    /\ outResults[m].error = Absent
    /\ archive[outResults[m].race].shortlist # <<>>

\* the date values given with --date, and a --date that is the last argument
GivenDates(args) ==
  {args[k + 1] : k \in {j \in 1 .. (Len(args) - 1) : args[j] = FlagDate}}
    \cup {SubSeq(args[k], Len(FlagDateEq) + 1, Len(args[k])) :
            k \in {j \in 1 .. Len(args) : startsWith(args[j], FlagDateEq)}}
FlagWithoutValue(args) == args # <<>> /\ args[Len(args)] = FlagDate

\* a date of the calendar, written YYYY-MM-DD or DD/MM/YYYY
OnCalendar(y, m, d) == m \in 1 .. 12 /\ d >= 1 /\ d <= DaysIn(y, m - 1)
StatedValidDate(v) ==
  \/ /\ IsISO(trim(v))
     /\ OnCalendar(TextNat(SubSeq(trim(v), 1, 4)), TextNat(SubSeq(trim(v), 6, 7)),
                   TextNat(SubSeq(trim(v), 9, 10)))
  \/ /\ IsDMY(trim(v))
     /\ OnCalendar(TextNat(SubSeq(trim(v), 7, 10)), TextNat(SubSeq(trim(v), 4, 5)),
                   TextNat(SubSeq(trim(v), 1, 2)))

\* C24, as the specification states it: when --date is given without a value
\* or with a value that is not a date of the calendar in one of the two
\* forms, getTargetDateFromArgs throws; it returns no date.
C24_InvalidDateRejected ==
  (target.st # "none"
     /\ (FlagWithoutValue(argv) \/ \E v \in GivenDates(argv) : ~StatedValidDate(v)))
    => target.st = "threw"

\* C25: without an archived picks file for the date the run ends in
\* process.exit(0) right after the test: no browser is launched, no race is
\* looked up and no file is written; process.exit is called nowhere else.
C25_MissingArchiveIsNothingToDo ==
  /\ ~onDisk =>
       /\ rpc \in {"start", "exists", "exited", "rejected"}
       /\ rpc = "rejected" => target.st = "threw"
       /\ browser = "none"
       /\ rpage = "none"
       /\ outResults = <<>> /\ updatedRaces = <<>>
       /\ files = NoFiles
  /\ rpc = "exited" <=> exited = "0"
  /\ exited # "none" => (~onDisk /\ target.st = "returned")

\* C25 witness: the run for a date without archive has exited with status 0.
C25_Witness ==
  ~onDisk /\ rpc = "exited" /\ exited = "0" /\ target.st = "returned" /\ browser = "none"

-----------------------------------------------------------------------------
(* toDec and impliedProb applied to every odds text up to a length *)

MaxLen == 3
Chars == {"0", "1", "3", ".", "/", " ", "E"}
\* longer texts of the kinds the odds notes hold: fractions, decimals, and
\* numbers or fractions inside free text
FreeTexts ==
  {<<"5", "/", "2">>,
   <<"3", ".", "7">>,
   <<"E", "X", "C", " ", "4", ".", "8">>,
   <<"E", "X", "C", " ", "5", "/", "2">>,
   <<"5", " ", "/", " ", "2">>,
   <<"1", ".", "5", "/", "2">>,
   <<"5", "/", "0", " ", "E">>,
   <<"E", "5", "/", "0">>,
   <<"3", "/", "1", "E">>,
   <<" ", ".", "5", " ">>}
OddsTexts == SeqsUpTo(Chars, MaxLen) \cup {NullText} \cup FreeTexts

DecIdle == odds = NullText /\ dec = Null /\ decDone = FALSE /\ prob = Null /\ probDone = FALSE

DecInit ==
  /\ odds \in OddsTexts
  /\ dec = Null
  /\ decDone = FALSE
  /\ prob = Null
  /\ probDone = FALSE

CallToDec ==
  /\ ~decDone
  /\ dec' = toDec(odds)
  /\ decDone' = TRUE
  /\ UNCHANGED <<odds, prob, probDone, outsideDec>>

CallImpliedProb ==
  /\ ~probDone
  /\ prob' = impliedProb(odds)
  /\ probDone' = TRUE
  /\ UNCHANGED <<odds, dec, decDone, outsideDec>>

DecNext == CallToDec \/ CallImpliedProb

-----------------------------------------------------------------------------
(* Properties of toDec and impliedProb *)

\* C7, as the specification states it: toDec of a fraction a/b whose
\* denominator is zero returns null.
C7_ZeroDenominatorIsNull ==
  (decDone /\ MatchFrac(trim(odds)) # Null
     /\ FSign(parseFloat(MatchFrac(trim(odds)).b)) = 0)
    => dec = Null

AllDigits(t) == t # <<>> /\ \A c \in 1 .. Len(t) : IsDigit(t[c])

StatedDecimalText(t) ==
  \/ AllDigits(t)
  \/ \E p \in 2 .. (Len(t) - 1) :
       t[p] = "." /\ AllDigits(SubSeq(t, 1, p - 1)) /\ AllDigits(SubSeq(t, p + 1, Len(t)))

StatedFractions(t) ==
  {f \in {[a |-> TrimRight(SubSeq(t, 1, p - 1)), b |-> TrimLeft(SubSeq(t, p + 1, Len(t)))] :
            p \in {q \in 1 .. Len(t) : t[q] = "/"}} :
     AllDigits(f.a) /\ AllDigits(f.b)}

StatedFractionTail(t) ==
  /\ TrimLeft(t) # <<>>
  /\ Head(TrimLeft(t)) = "/"
  /\ AllDigits(TrimLeft(Tail(TrimLeft(t))))

Longest(S) == CHOOSE m \in S : \A n \in S : n <= m

StatedDenominator(rest) ==
  IF \E m \in 1 .. Len(rest) : StatedFractionTail(SubSeq(rest, 1, m))
  THEN TrimLeft(Tail(TrimLeft(SubSeq(rest, 1,
         Longest({m \in 1 .. Len(rest) : StatedFractionTail(SubSeq(rest, 1, m))})))))
  ELSE NullText

StatedNumberFrom(t, k) ==
  SubSeq(t, k, Longest({e \in k .. Len(t) : StatedDecimalText(SubSeq(t, k, e))}))

StatedFirstDigit(t) == CHOOSE k \in 1 .. Len(t) : IsDigit(t[k]) /\ \A j \in 1 .. (k - 1) : ~IsDigit(t[j])

StatedFragment(t) ==
  [num |-> StatedNumberFrom(t, StatedFirstDigit(t)),
   den |-> StatedDenominator(SubSeq(t, StatedFirstDigit(t) + Len(StatedNumberFrom(t, StatedFirstDigit(t))), Len(t)))]

StatedRatio(a, b) == FAdd(FDiv(parseFloat(a), parseFloat(b)), FOne)

StatedFragmentValue(f) ==
  IF f.den # NullText /\ IsPositive(parseFloat(f.den))
  THEN StatedRatio(f.num, f.den)
  ELSE parseFloat(f.num)

StatedToDec(o) ==
  IF o = NullText \/ o = <<>> THEN Null
  ELSE IF StatedDecimalText(trim(o)) THEN parseFloat(trim(o))
  ELSE IF \E f \in StatedFractions(trim(o)) : IsPositive(parseFloat(f.b))
       THEN StatedRatio((CHOOSE f \in StatedFractions(trim(o)) : TRUE).a,
                        (CHOOSE f \in StatedFractions(trim(o)) : TRUE).b)
  ELSE IF \E k \in 1 .. Len(trim(o)) : IsDigit(trim(o)[k])
       THEN StatedFragmentValue(StatedFragment(trim(o)))
  ELSE Null

\* the doubles nearest to 3.5, 3.7, 4.8 and 5
ThreeAndHalf == FRoundQ(1, BNat(7), BNat(2), 0)
ThreePointSeven == FRoundQ(1, BNat(37), BNat(10), 0)
FourPointEight == FRoundQ(1, BNat(48), BNat(10), 0)

\* C19: toDec returns what the stated parsing order gives, first match first:
\* the number of a decimal text; a/b + 1 of a text that is a fraction with
\* b > 0; else from the first number inside the text a/b + 1 when a positive
\* denominator follows it and the bare number when not; else null. "5/2"
\* gives 3.5 and not 5, "3.7" gives 3.7, "EXC 4.8" gives 4.8, "" and null
\* give null.
C19_ParsingOrder ==
  decDone =>
    /\ dec = StatedToDec(odds)
    /\ odds = <<"5", "/", "2">> => (dec = ThreeAndHalf /\ dec # FInt(5))
    /\ odds = <<"3", ".", "7">> => dec = ThreePointSeven
    /\ odds = <<"E", "X", "C", " ", "4", ".", "8">> => dec = FourPointEight
    /\ odds \in {<<>>, NullText} => dec = Null

\* C19 witness: a fraction inside free text, "EXC 5/2", parsed as 3.5.
C19_Witness ==
  decDone /\ odds = <<"E", "X", "C", " ", "5", "/", "2">> /\ dec = ThreeAndHalf

-----------------------------------------------------------------------------
(* The selection loop *)

\* the map callback: { ...p, oddsDec, probability, expected_value }
ScorePick(p) ==
  LET Scored(d, pr) ==
        [name |-> p.name, odds_note |-> p.odds_note, confidence |-> p.confidence,
         form |-> p.form, oddsDec |-> d, probability |-> pr,
         expected_value |-> expectedValue(pr, d)]
  IN Scored(toDec(OddsOf(p)), adjustedProb(p))

\* `picks.filter(p => p.expected_value > 0)`
IsProfitable_orZero(p) == FSign(p.expected_value) >= 0
IsProfitable(p) == IsPositive(p.expected_value)

\* `if (profitable.length < 3) continue;`
TooFew_one(ps) == Len(ps) < 1
TooFew(ps) == Len(ps) < 3

\* `profitable.sort((a, b) => b.probability - a.probability)`: a stable sort;
\* each element goes after those that do not rank behind it
RanksBefore_strict(a, b) == FCmp(a.probability, b.probability) > 0
RanksBefore(a, b) == FCmp(a.probability, b.probability) >= 0
RECURSIVE InsertSorted(_, _)
InsertSorted(sorted, x) ==
  IF sorted = <<>> THEN <<x>>
  ELSE IF RanksBefore(Head(sorted), x) THEN <<Head(sorted)>> \o InsertSorted(Tail(sorted), x)
  ELSE <<x>> \o sorted
RECURSIVE SortByProbability(_)
SortByProbability(ps) ==
  IF ps = <<>> THEN <<>>
  ELSE InsertSorted(SortByProbability(SubSeq(ps, 1, Len(ps) - 1)), ps[Len(ps)])

\* `profitable.slice(0, 3)`
Slice3_four(ps) == SubSeq(ps, 1, IF Len(ps) < 4 THEN Len(ps) ELSE 4)
Slice3(ps) == SubSeq(ps, 1, IF Len(ps) < 3 THEN Len(ps) ELSE 3)

\* an entry of best_3_picks
Emitted(p) ==
  [name |-> p.name,
   odds |-> p.oddsDec,
   probability |-> parseFloat(toFixed(FMul(p.probability, FInt(100)), 1)),
   expected_value |-> parseFloat(toFixed(p.expected_value, 3))]

\* `race.shortlist || []`: a race without a shortlist has the empty one
ShortlistOf(race) == race.shortlist

Gate_ungated(race, top, pot) ==
  /\ top3' = top
  /\ potential' = pot
  /\ refined' = Append(refined,
       [course |-> trim(OrEmpty(race.course)),
        time |-> trim(OrEmpty(race.time)),
        best_3_picks |-> [k \in 1 .. Len(top) |-> Emitted(top[k])],
        combo_profit_check |-> toFixed(pot, 2)])

\* `if (potential <= 0) continue;` and `refined.push({...})`
Gate(race, top, pot) ==
  /\ top3' = top
  /\ potential' = pot
  /\ IF ~IsPositive(pot)
     THEN UNCHANGED refined                           \* continue
     ELSE refined' = Append(refined,
            [course |-> trim(OrEmpty(race.course)),
             time |-> trim(OrEmpty(race.time)),
             best_3_picks |-> [k \in 1 .. Len(top) |-> Emitted(top[k])],
             combo_profit_check |-> toFixed(pot, 2)])

\* `const top3 = ...; const potential = calcPotentialProfit(top3);`
Cap(race, top) == Gate(race, top, calcPotentialProfit(top))

\* the sort is in place: `profitable` is the sorted array from here on
Rank(race, sorted) == profitable' = sorted /\ Cap(race, Slice3(sorted))

Filter(race, prof) ==
  IF TooFew(prof)
  THEN /\ profitable' = prof                          \* continue
       /\ UNCHANGED <<top3, potential, refined>>
  ELSE Rank(race, SortByProbability(prof))

Score_accumulate(race, scored) ==
  picks' = picks \o scored /\ Filter(race, SelectSeq(picks \o scored, IsProfitable))
Score(race, scored) == picks' = scored /\ Filter(race, SelectSeq(scored, IsProfitable))

\* history: the race of a turn, its scored picks, the capped list and combo
\* check if the turn got as far as these, and what it pushed to refined.races
Turn(race, scored, prof, top, pot, pushed) ==
  [race |-> race, picks |-> scored,
   capped |-> IF TooFew(prof) THEN <<>> ELSE top,
   check |-> IF TooFew(prof) THEN Null ELSE pot,
   pushed |-> pushed]

\* One turn of `for (const race of data.races || [])`.
ProcessRace ==
  /\ ~written
  /\ ri < Len(races)
  /\ Score(races[ri + 1],
           [k \in 1 .. Len(ShortlistOf(races[ri + 1])) |-> ScorePick(ShortlistOf(races[ri + 1])[k])])
  /\ ri' = ri + 1
  /\ trace' = Append(trace, Turn(races[ri + 1], picks', profitable', top3', potential',
                                 SubSeq(refined', Len(refined) + 1, Len(refined'))))
  /\ UNCHANGED <<races, written, runs, outsideSel>>

\* after the loop: fs.writeFileSync(outFile, JSON.stringify(refined, null, 2))
WriteFile ==
  /\ ~written
  /\ ri = Len(races)
  /\ written' = TRUE
  /\ UNCHANGED <<races, ri, picks, profitable, top3, potential, refined, trace, runs, outsideSel>>

MaxPicks == 4

Pick(o, c, f) == [odds_note |-> o, confidence |-> c, form |-> f]
HighText == <<"H", "i", "g", "h">>
MediumText == <<"m", "e", "d", "i", "u", "m">>
HugeOdds == <<"1">> \o Repeat("0", 21)
PickKinds ==
  { Pick(<<"2">>, HighText, <<"1">>),
    Pick(<<"5", "/", "2">>, HighText, <<>>),
    Pick(<<"E", "X", "C", " ", "4", ".", "8">>, MediumText, NullText),
    Pick(<<"2">>, <<>>, <<>>),
    Pick(<<"1", ".", "0", "1", "0", "2">>, HighText, NullText),
    Pick(HugeOdds, HighText, <<>>),
    Pick(<<>>, HighText, <<"1">>) }

\* the shortlists: up to MaxPicks picks, named by their place
Shortlists ==
  { [k \in 1 .. Len(ks) |-> [name |-> k] @@ ks[k]] : ks \in SeqsUpTo(PickKinds, MaxPicks) }

RaceInputs ==
  { [course |-> <<"A", "y", "r", " ">>, time |-> <<"1">>, shortlist |-> sl] : sl \in Shortlists }

SelIdle ==
  /\ races = <<>> /\ ri = 0 /\ picks = <<>> /\ profitable = <<>> /\ top3 = <<>>
  /\ potential = Null /\ refined = <<>> /\ written = FALSE
  /\ trace = <<>> /\ runs = <<>>

SelInit ==
  /\ races \in {<<r>> : r \in RaceInputs} \cup {<<>>}
  /\ ri = 0
  /\ picks = <<>>
  /\ profitable = <<>>
  /\ top3 = <<>>
  /\ potential = Null
  /\ refined = <<>>
  /\ written = FALSE
  /\ trace = <<>>
  /\ runs = <<>>

SelNext == ProcessRace \/ WriteFile

-----------------------------------------------------------------------------
(* The selection script run again on the same input file: races with picks   *)
(* at the edges of the filter and of the gate, alone and in pairs             *)

MaxRuns == 2

LowText == <<"L", "o", "w">>
EdgeKinds ==
  { Pick(<<"3", ".", "0", "0", "1">>, HighText, <<"1">>),
    Pick(<<"1", "1">>, LowText, <<"2", "3">>),
    Pick(<<"2">>, HighText, <<"1">>),
    Pick(<<"2">>, <<>>, <<>>) }
PairKinds ==
  { Pick(<<"3", ".", "0", "0", "1">>, HighText, <<"1">>),
    Pick(<<"2">>, HighText, <<"1">>),
    Pick(<<"2">>, <<>>, <<>>) }

RaceOfKinds(ks) ==
  [course |-> <<"A", "y", "r", " ">>, time |-> <<"1">>,
   shortlist |-> [k \in 1 .. Len(ks) |-> [name |-> k] @@ ks[k]]]

EdgeRaces == {RaceOfKinds(ks) : ks \in SeqsUpTo(EdgeKinds, MaxPicks)}
PairRaces == {RaceOfKinds(ks) : ks \in [1 .. 3 -> PairKinds]}

RunsInit ==
  /\ races \in {<<>>} \cup {<<r>> : r \in EdgeRaces}
                \cup {<<r[1], r[2]>> : r \in PairRaces \X PairRaces}
  /\ ri = 0
  /\ picks = <<>>
  /\ profitable = <<>>
  /\ top3 = <<>>
  /\ potential = Null
  /\ refined = <<>>
  /\ written = FALSE
  /\ trace = <<>>
  /\ runs = <<>>

\* the script is started again on the same input file: `const data =
\* JSON.parse(text); const refined = { ...data, races: [], ... }`
Rerun ==
  /\ written
  /\ Len(runs) + 1 < MaxRuns
  /\ runs' = Append(runs, [trace |-> trace, refined |-> refined])
  /\ ri' = 0
  /\ picks' = <<>>
  /\ profitable' = <<>>
  /\ top3' = <<>>
  /\ potential' = Null
  /\ refined' = <<>>
  /\ written' = FALSE
  /\ trace' = <<>>
  /\ UNCHANGED <<races, outsideSel>>

RunsNext == ProcessRace \/ WriteFile \/ Rerun

-----------------------------------------------------------------------------
(* adjustedProb applied to picks: every odds text up to a length, with some   *)
(* confidence descriptors and form strings, missing ones included             *)

AdjChars == {"1", "3", ".", "/", "E"}
AdjOdds == SeqsUpTo(AdjChars, MaxLen) \cup {NullText}
Confidences ==
  {NullText, <<>>, HighText, MediumText, <<"L", "o", "w">>,
   <<"M", "e", "d", "i", "u", "m", "-", "H", "I", "G", "H">>}
Forms == {NullText, <<>>, <<"1">>, <<"0">>, <<"2", "1", "0">>, <<"2", "3">>}

NoPick == Pick(NullText, NullText, NullText)

AdjIdle == adjPick = NoPick /\ adj = Null /\ adjDone = FALSE

AdjInit ==
  /\ adjPick \in {Pick(o, c, f) : o \in AdjOdds, c \in Confidences, f \in Forms}
  /\ adj = Null
  /\ adjDone = FALSE

CallAdjustedProb ==
  /\ ~adjDone
  /\ adj' = adjustedProb(adjPick)
  /\ adjDone' = TRUE
  /\ UNCHANGED <<adjPick, outsideAdjust>>

AdjNext == CallAdjustedProb

-----------------------------------------------------------------------------
(* Properties of adjustedProb *)

\* the factors as the specification gives them
StatedConfidenceFactor(c) ==
  IF includes(toLowerCase(OrEmpty(c)), <<"h", "i", "g", "h">>) THEN F110
  ELSE IF includes(toLowerCase(OrEmpty(c)), MediumText) THEN F105
  ELSE FOne
StatedFormFactor(f, ch, factor) ==
  IF \E k \in 1 .. Len(OrEmpty(f)) : OrEmpty(f)[k] = ch THEN factor ELSE FOne
StatedImplied(o) ==
  IF toDec(o) # Null /\ FCmp(toDec(o), FOne) = 1 THEN FDiv(FOne, toDec(o)) ELSE FZero
StatedProduct(p) ==
  FMul(FMul(FMul(StatedImplied(p.odds_note), StatedConfidenceFactor(p.confidence)),
            StatedFormFactor(p.form, "1", F105)),
       StatedFormFactor(p.form, "0", F095))

\* C17: whatever the odds text, the confidence and the form, missing ones
\* included, adjustedProb returns a probability p with 0 <= p <= 0.99.
C17_ProbabilityWithinBounds ==
  adjDone => (FSign(adj) >= 0 /\ FCmp(adj, F099) <= 0)

\* C17 witness: a pick whose product of implied probability and factors is
\* above 0.99, returned as 0.99.
C17_Witness ==
  adjDone /\ adj = F099 /\ FCmp(StatedProduct(adjPick), F099) = 1

\* C20: adjustedProb is min(0.99, implied * c * f1 * f0), with implied the
\* reciprocal of the decimal odds above 1 and 0 otherwise, c = 1.10 for a
\* confidence containing "high", 1.05 for one containing "medium" and not
\* "high", 1 otherwise, f1 = 1.05 for a form containing '1' and f0 = 0.95 for a
\* form containing '0', both when both are present.
C20_AdjustedProbFormula ==
  adjDone =>
    adj = IF FCmp(StatedProduct(adjPick), F099) < 0 THEN StatedProduct(adjPick) ELSE F099

\* C20 witness: a confidence that contains both "medium" and "high" and a
\* form with both '1' and '0', for odds that give a probability below the cap.
C20_Witness ==
  /\ adjDone
  /\ includes(toLowerCase(OrEmpty(adjPick.confidence)), MediumText)
  /\ includes(toLowerCase(OrEmpty(adjPick.confidence)), <<"h", "i", "g", "h">>)
  /\ includes(OrEmpty(adjPick.form), <<"1">>)
  /\ includes(OrEmpty(adjPick.form), <<"0">>)
  /\ FSign(adj) = 1
  /\ FCmp(adj, F099) < 0
  /\ adj # StatedImplied(adjPick.odds_note)

-----------------------------------------------------------------------------
(* Properties of the selection loop *)

EVPositive(p) == FSign(p.expected_value) = 1
\* the places in the shortlist of the picks scored with an expected value > 0
PositivePicks == {k \in 1 .. Len(picks) : EVPositive(picks[k])}
\* the places in the shortlist of the picks the race was emitted with
EmittedPicks(r) == {r.best_3_picks[k].name : k \in 1 .. Len(r.best_3_picks)}
Processed == ri = 1
WasEmitted == Len(refined) = 1

\* the combo profit the specification describes: decimalOdds - 3 of the first
\* pick, in rank order, whose decimal odds exceed 3; -1 without one
RECURSIVE StatedProfit(_)
StatedProfit(ps) ==
  IF ps = <<>> THEN FNeg(FOne)
  ELSE IF Head(ps).oddsDec # Null /\ FCmp(Head(ps).oddsDec, FThree) = 1
       THEN FSub(Head(ps).oddsDec, FThree)
  ELSE StatedProfit(Tail(ps))

\* the positive picks in rank order, at most three of them
StatedShortlist ==
  LET ranked == SortByProbability(SelectSeq(picks, EVPositive))
  IN SubSeq(ranked, 1, IF Len(ranked) < 3 THEN Len(ranked) ELSE 3)

\* C5, as the specification states it: a race with one or two EV-positive
\* picks whose combo profit check is positive is emitted, with those picks.
C5_QualifiesWithOne ==
  (Processed /\ Cardinality(PositivePicks) \in {1, 2}
     /\ IsPositive(StatedProfit(StatedShortlist)))
    => (WasEmitted /\ EmittedPicks(refined[1]) = PositivePicks)

\* C5, as the code has it: a race is emitted only with at least three
\* EV-positive picks; with fewer it is dropped, whatever its combo profit.
C5_QualifiesWithThree ==
  /\ (Processed /\ Cardinality(PositivePicks) < 3) => refined = <<>>
  /\ WasEmitted => (Cardinality(PositivePicks) >= 3 /\ Len(refined[1].best_3_picks) = 3)

C5_Witness ==
  /\ Processed /\ written
  /\ Cardinality(PositivePicks) = 2
  /\ IsPositive(StatedProfit(StatedShortlist))
  /\ refined = <<>>

\* C6, as the specification states it: the combo profit of the capped, ranked
\* list is decimalOdds - 3 of its first pick with decimal odds above 3, and -1
\* if it has none.
C6_ComboProfitCheck ==
  (Processed /\ Cardinality(PositivePicks) >= 3) => potential = StatedProfit(top3)

\* C9: an emitted race that has more than three EV-positive picks is emitted
\* with exactly three of them, and no EV-positive pick left out has a higher
\* adjusted probability than one that is in.
C9_TopThreeByProbability ==
  (WasEmitted /\ Cardinality(PositivePicks) > 3) =>
    /\ Len(refined[1].best_3_picks) = 3
    /\ Cardinality(EmittedPicks(refined[1])) = 3
    /\ EmittedPicks(refined[1]) \subseteq PositivePicks
    /\ \A o \in PositivePicks \ EmittedPicks(refined[1]) :
         \A e \in EmittedPicks(refined[1]) :
           FCmp(picks[o].probability, picks[e].probability) <= 0

C9_Witness ==
  /\ WasEmitted
  /\ Cardinality(PositivePicks) = 4
  /\ \E o \in PositivePicks \ EmittedPicks(refined[1]) :
       /\ o < 4
       /\ \A e \in EmittedPicks(refined[1]) :
            FCmp(picks[o].probability, picks[e].probability) < 0

\* C18: the picks of an emitted shortlist are in order of non-increasing
\* adjusted probability, whatever their expected values, and picks of equal
\* probability are in the order they had in the analysis input; the rounded
\* probabilities written out are in non-increasing order too.
C18_OrderedByProbabilityStable ==
  \A n \in 1 .. Len(refined) :
    \A k \in 1 .. (Len(refined[n].best_3_picks) - 1) :
      LET e == refined[n].best_3_picks
          a == picks[e[k].name]
          b == picks[e[k + 1].name]
      IN /\ FCmp(a.probability, b.probability) >= 0
         /\ FCmp(a.probability, b.probability) = 0 => e[k].name < e[k + 1].name
         /\ FCmp(e[k].probability, e[k + 1].probability) >= 0

\* C18 witness: an emitted shortlist with two picks of equal probability and
\* with a pick placed before one of higher expected value, and whose order
\* is not the input order.
C18_Witness ==
  /\ WasEmitted
  /\ \E k \in 1 .. 2 :
       LET e == refined[1].best_3_picks
       IN picks[e[k].name].probability = picks[e[k + 1].name].probability
  /\ \E k \in 1 .. 2 :
       LET e == refined[1].best_3_picks
       IN /\ FCmp(picks[e[k].name].probability, picks[e[k + 1].name].probability) > 0
          /\ FCmp(picks[e[k].name].expected_value, picks[e[k + 1].name].expected_value) < 0
  /\ \E k \in 1 .. 2 : refined[1].best_3_picks[k].name > refined[1].best_3_picks[k + 1].name

\* the turns of the loop so far, in this run and in the runs that have ended
AllTurns ==
  {trace[j] : j \in 1 .. Len(trace)}
    \cup UNION {{runs[r].trace[j] : j \in 1 .. Len(runs[r].trace)} : r \in 1 .. Len(runs)}

RECURSIVE Pushed(_)
Pushed(turns) == IF turns = <<>> THEN <<>> ELSE turns[1].pushed \o Pushed(Tail(turns))

\* C22, as the specification states it: every emitted race has a shortlist
\* that is not empty and a combo_profit_check above 0.
C22_EmittedCheckPositive ==
  \A n \in 1 .. Len(refined) :
    /\ refined[n].best_3_picks # <<>>
    /\ IsPositive(parseFloat(refined[n].combo_profit_check))

GateHolds(t) ==
  /\ t.check # Null => t.check = calcPotentialProfit(t.capped)
  /\ t.pushed # <<>> <=> (t.capped # <<>> /\ t.check # Null /\ IsPositive(t.check))
  /\ (\A k \in 1 .. Len(t.capped) :
        t.capped[k].oddsDec = Null \/ FCmp(t.capped[k].oddsDec, FThree) <= 0)
       => t.pushed = <<>>
  /\ t.pushed # <<>> =>
       /\ Len(t.pushed) = 1
       /\ Len(t.pushed[1].best_3_picks) = Len(t.capped)
       /\ \A k \in 1 .. Len(t.capped) : t.pushed[1].best_3_picks[k].name = t.capped[k].name
       /\ t.pushed[1].combo_profit_check = toFixed(t.check, 2)
       /\ FSign(parseFloat(t.pushed[1].combo_profit_check)) >= 0

\* C22, as the code has it: a race is emitted only if its capped list is not
\* empty and its combo profit check is above 0, with the capped list as its
\* shortlist; a race whose check is not above 0, as is every race without a
\* capped pick of decimal odds above 3, is not emitted at all, and the output
\* holds nothing but the emitted races. The combo_profit_check written is the
\* check rounded to two decimals, which is 0 or more.
C22_GateOnComboCheck ==
  /\ \A j \in 1 .. Len(trace) : GateHolds(trace[j])
  /\ refined = Pushed(trace)

\* C22 witness: a race emitted on a check above 0 that is written as "0.00",
\* after a race with three EV-positive picks that was dropped on its check.
C22_Witness ==
  /\ Len(trace) = 2
  /\ trace[1].check = FNeg(FOne) /\ Len(trace[1].capped) = 3 /\ trace[1].pushed = <<>>
  /\ trace[2].check # Null /\ IsPositive(trace[2].check)
  /\ Len(refined) = 1
  /\ refined[1].combo_profit_check = <<"0", ".", "0", "0">>

Unadjusted(p) ==
  /\ ~includes(toLowerCase(OrEmpty(p.confidence)), <<"h", "i", "g", "h">>)
  /\ ~includes(toLowerCase(OrEmpty(p.confidence)), <<"m", "e", "d", "i", "u", "m">>)
  /\ ~includes(OrEmpty(p.form), <<"1">>)

\* C28, as the specification states it: a pick without confidence or form
\* adjustment upwards is never scored with an expected value above 0 and is
\* in no emitted shortlist.
C28_UnadjustedNeverEmitted ==
  \A j \in 1 .. Len(trace) :
    \A k \in 1 .. Len(trace[j].picks) :
      Unadjusted(trace[j].picks[k]) =>
        /\ ~EVPositive(trace[j].picks[k])
        /\ \A n \in 1 .. Len(trace[j].pushed) : k \notin EmittedPicks(trace[j].pushed[n])

\* C10, as the specification states it: every pick of an emitted shortlist
\* carries an expected_value above 0.
C10_EmittedValuePositive ==
  \A n \in 1 .. Len(refined) :
    \A k \in 1 .. Len(refined[n].best_3_picks) :
      IsPositive(refined[n].best_3_picks[k].expected_value)

\* C10, as the code has it: every pick of an emitted shortlist was scored with
\* an expected value above 0, the value of
\* probability * (decimalOdds - 1) - (1 - probability); the expected_value it is
\* emitted with is that value rounded to three decimals, which is 0 or more. A
\* pick whose decimal odds or probability is null or zero is scored -1 and is in
\* no emitted shortlist.
C10_ScoredValuePositive ==
  /\ \A n \in 1 .. Len(refined) :
       \A k \in 1 .. Len(refined[n].best_3_picks) :
         LET e == refined[n].best_3_picks[k]
             p == picks[e.name]
         IN /\ EVPositive(p)
            /\ p.expected_value
                 = FSub(FMul(p.probability, FSub(p.oddsDec, FOne)), FSub(FOne, p.probability))
            /\ e.expected_value = parseFloat(toFixed(p.expected_value, 3))
            /\ FSign(e.expected_value) >= 0
  /\ \A k \in 1 .. Len(picks) :
       (picks[k].oddsDec = Null \/ FSign(picks[k].oddsDec) = 0
          \/ FSign(picks[k].probability) = 0)
         => /\ picks[k].expected_value = FNeg(FOne)
            /\ \A n \in 1 .. Len(refined) : k \notin EmittedPicks(refined[n])

C10_Witness ==
  /\ WasEmitted
  /\ \E k \in 1 .. Len(picks) : picks[k].oddsDec = Null
  /\ \E k \in 1 .. 3 :
       /\ FSign(refined[1].best_3_picks[k].expected_value) = 0
       /\ EVPositive(picks[refined[1].best_3_picks[k].name])

-----------------------------------------------------------------------------
(* Specifications *)

PoolIdle ==
  /\ called = FALSE /\ items = <<>> /\ limit = 1 /\ out = <<>> /\ i = 0
  /\ running = 0 /\ workers = <<>> /\ jobs = <<>> /\ settled = "pending"
  /\ reason = NoReason /\ settleOrder = <<>>

\* mapPool
Init == PoolInit /\ DecIdle /\ SelIdle /\ RunIdle /\ AnaIdle /\ ResIdle /\ AdjIdle
Next == PoolNext
Spec == Init /\ [][Next]_vars

\* mapPool, where the job queue is always served and every worker that has
\* been invoked settles at some time
PoolFairness ==
  /\ WF_vars(MapPool)
  /\ WF_vars(ThenJob)
  /\ WF_vars(CatchJob)
  /\ WF_vars(FinallyJob)
  /\ \A idx \in 0 .. (MaxItems - 1) :
       WF_vars(/\ idx \in DOMAIN workers
               /\ \/ \E v \in Values : WorkerFulfils(idx, v)
                  \/ \E e \in Errors : WorkerRejects(idx, e))
SpecLive == Init /\ [][Next]_vars /\ PoolFairness

\* toDec
InitToDec == PoolIdle /\ DecInit /\ SelIdle /\ RunIdle /\ AnaIdle /\ ResIdle /\ AdjIdle
NextToDec == DecNext
SpecToDec == InitToDec /\ [][NextToDec]_vars

\* the selection script
InitSelect == PoolIdle /\ DecIdle /\ SelInit /\ RunIdle /\ AnaIdle /\ ResIdle /\ AdjIdle
NextSelect == SelNext
SpecSelect == InitSelect /\ [][NextSelect]_vars

\* the racecards scraper
InitScrape == ScrapeInit /\ DecIdle /\ SelIdle /\ AnaIdle /\ ResIdle /\ AdjIdle
NextScrape == ScrapeNext
SpecScrape == InitScrape /\ [][NextScrape]_vars

\* the racecards scraper on a card of more races than the pool's limit
InitPages == PagesInit /\ DecIdle /\ SelIdle /\ AnaIdle /\ ResIdle /\ AdjIdle
NextPages == ScrapeNext
SpecPages == InitPages /\ [][NextPages]_vars

\* the analysis script
InitAnalysis == AnalysisInit /\ DecIdle /\ SelIdle /\ RunIdle /\ ResIdle /\ AdjIdle
NextAnalysis == AnalysisNext
SpecAnalysis == InitAnalysis /\ [][NextAnalysis]_vars

\* the result extractor
InitResults == PoolIdle /\ DecIdle /\ SelIdle /\ RunIdle /\ AnaIdle /\ ResultsInit /\ AdjIdle
NextResults == ResultsNext
SpecResults == InitResults /\ [][NextResults]_vars

\* the selection script, run again
InitRuns == PoolIdle /\ DecIdle /\ RunsInit /\ RunIdle /\ AnaIdle /\ ResIdle /\ AdjIdle
NextRuns == RunsNext
SpecRuns == InitRuns /\ [][NextRuns]_vars

\* the result extractor from its start
InitStart == PoolIdle /\ DecIdle /\ SelIdle /\ RunIdle /\ AnaIdle /\ StartInit /\ AdjIdle
NextStart == StartNext
SpecStart == InitStart /\ [][NextStart]_vars

\* adjustedProb
InitAdjust == PoolIdle /\ DecIdle /\ SelIdle /\ RunIdle /\ AnaIdle /\ ResIdle /\ AdjInit
NextAdjust == AdjNext
SpecAdjust == InitAdjust /\ [][NextAdjust]_vars

=============================================================================
